---- MODULE Spec2Model ----
(***************************************************************************)
(* Tamper-evident audit ledger of daipers/WAP (audit_ledger_service):      *)
(* the hash-chained AuditLedger, the MerkleTree aggregator, the periodic   *)
(* aggregation with its anchors, and the AuditVerifier.                    *)
(*                                                                         *)
(* Encoding of values.  A Python dict is a TLA+ function from its keys.    *)
(* A Python string produced by json.dumps is a tagged tuple ("dict" or     *)
(* "list" followed by the serialized members in serialization order), a    *)
(* plain data string is <<"str", s>>, and a SHA-256 hex digest is the      *)
(* tuple <<"sha256", preimage>>: two digests are equal exactly when their  *)
(* preimages are, i.e. SHA-256 is taken as collision-free.                 *)
(***************************************************************************)
EXTENDS Integers, Sequences, FiniteSets, TLC

\* ------------------------------------------------------------------ bounds
MaxEntries == 3
MaxDay == 1
MaxOpsEntries == 2
MaxVerifications == 1
MaxAggregations == 1
MaxTamperEntries == 2
MaxTampers == 2
MaxCallsPerThread == 1
MaxItems == 5
MaxAggRuns == 2
MaxTicks == 1
MaxAnchors == 2
MaxSchemaEntries == 2

\* ------------------------------------------------------- program constants
SecondsPerDay == 86400

\* AuditLedger._genesis_hash: 64 hex zeros
genesis_hash == <<"0000000000000000000000000000000000000000000000000000000000000000">>

\* AuditVerifier.GENESIS_HASH
GENESIS_HASH == <<"0000000000000000000000000000000000000000000000000000000000000000">>

\* Python's None, as the value of an Optional[str]
None == <<"None">>

\* datetime.isoformat() of a clock reading
isoformat(now) == <<"iso", now>>

\* {} (an empty dict)
EmptyDict == [k \in {} |-> 0]

\* ----------------------------------------------------------------- inputs
Sessions == {"S1", "S2"}
Actors == {"system"}
Actions == {"login"}
EventTypes == {"session_end"}
Candidates == {"c1"}
Payloads == {[a |-> 1], [a |-> 2]}
Metadatas == {EmptyDict}
Timestamps == {d * SecondsPerDay : d \in 0..MaxDay}

\* AuditEvent instances a caller may pass to record_audit_event
AuditEvent ==
    [event_type : EventTypes, session_id : Sessions, candidate_id : Candidates,
     timestamp : Timestamps, actor : Actors, payload : Payloads,
     metadata : Metadatas]

\* ------------------------------------------------------------------ state
VARIABLES
    entries,               \* AuditLedger.entries
    next_event_id,         \* AuditLedger._next_event_id
    last_hash,             \* AuditLedger._last_hash
    verification_history,  \* AuditVerifier.verification_history
    anchors,               \* PeriodicAnchoring.anchors
    aggregation_history,   \* PeriodicAggregation.aggregation_history
    last_aggregation,      \* PeriodicAggregation._last_aggregation
    ret,                   \* the last call made and the value it returned
    tampers,               \* how many stored fields were altered from outside
    pc,                    \* per thread: its position in the record method
    local,                 \* per thread: the locals of its record call
    items,                 \* the item list handed to MerkleTree.build
    mtree,                 \* the MerkleTree under test
    mproof,                \* the MerkleProof under test
    asked_index,           \* the leaf index that proof was asked for
    ledger_set,            \* PeriodicAggregation.ledger is not None
    clock,                 \* the wall clock (time.time(), datetime.now())
    held_event,            \* the AuditEvent instance a caller holds
    held_alias,            \* positions of the stored entries whose payload
                           \* and metadata are the dicts of held_event
    tsa_url                \* PeriodicAnchoring.tsa_url

ledgerVars == <<entries, next_event_id, last_hash>>
verifierVars == <<verification_history>>
aggVars == <<anchors, aggregation_history, last_aggregation, ledger_set,
            tsa_url>>
threadVars == <<pc, local>>
callerVars == <<clock, held_event, held_alias>>
envVars == <<tampers, pc, local, items, mtree, mproof, asked_index, clock,
            held_event, held_alias>>
merkleVars == <<items, mtree, mproof, asked_index>>
vars == <<entries, next_event_id, last_hash, verification_history, anchors,
          aggregation_history, last_aggregation, ret, tampers, pc, local,
          items, mtree, mproof, asked_index, ledger_set, clock,
          held_event, held_alias, tsa_url>>

\* --------------------------------------------------------------- hashing
\* hashlib.sha256(s.encode("utf-8")).hexdigest()
sha256(s) == <<"sha256", s>>

\* the keys payload and metadata dicts use, in sorted order
KeyOrder == <<"a", "b", "item_id", "reason", "response", "src">>

\* a payload value json.dumps has no encoding for (a set, an object());
\* every other value of the model is a number json.dumps encodes
NotSerializable == -1

\* json.dumps(d) returns for this dict instead of raising TypeError
JsonSerializable(d) == \A k \in DOMAIN d : d[k] # NotSerializable

\* json.dumps(d, sort_keys=True) of a flat dict
JsonDumpsDict(d) ==
    LET keys == SelectSeq(KeyOrder, LAMBDA k : k \in DOMAIN d)
    IN  <<"dict">> \o [i \in 1..Len(keys) |-> <<keys[i], d[keys[i]]>>]

\* json.dumps(content, sort_keys=True) of the content dict that is hashed
JsonDumpsContentNoPayload(c) ==
    <<"dict",
      <<"action", c.action>>, <<"actor", c.actor>>,
      <<"candidate_id", c.candidate_id>>, <<"event_id", c.event_id>>,
      <<"event_type", c.event_type>>, <<"metadata", JsonDumpsDict(c.metadata)>>,
      <<"prev_hash", c.prev_hash>>,
      <<"session_id", c.session_id>>, <<"timestamp", c.timestamp>>>>
JsonDumpsContent(c) ==
    <<"dict",
      <<"action", c.action>>, <<"actor", c.actor>>,
      <<"candidate_id", c.candidate_id>>, <<"event_id", c.event_id>>,
      <<"event_type", c.event_type>>, <<"metadata", JsonDumpsDict(c.metadata)>>,
      <<"payload", JsonDumpsDict(c.payload)>>, <<"prev_hash", c.prev_hash>>,
      <<"session_id", c.session_id>>, <<"timestamp", c.timestamp>>>>

\* AuditLedger._compute_hash(data, include_genesis); every caller leaves
\* include_genesis at its default False
ComputeHashWithGenesis(data, include_genesis) ==
    IF last_hash = None
    THEN sha256(<<"concat", data, ",genesis:", genesis_hash>>)
    ELSE sha256(data)
compute_hash(data, include_genesis) ==
    IF include_genesis /\ last_hash = None
    THEN sha256(<<"concat", data, ",genesis:", genesis_hash>>)
    ELSE sha256(data)

\* the content dict rebuilt from an entry's stored fields and a given prev_hash
ContentOf(entry, prev) ==
    [event_id |-> entry.event_id, timestamp |-> entry.timestamp,
     session_id |-> entry.session_id, candidate_id |-> entry.candidate_id,
     actor |-> entry.actor, event_type |-> entry.event_type,
     action |-> entry.action, payload |-> entry.payload,
     metadata |-> entry.metadata, prev_hash |-> prev]

\* ---------------------------------------------------------------- append
\* prev_hash = self._last_hash if self._last_hash is not None else genesis
PrevHashAlwaysGenesis(lh) == genesis_hash
prev_hash_of(lh) == IF lh # None THEN lh ELSE genesis_hash

\* the LedgerEntry both record methods build from the event fields, the id
\* read for the hashed content (id1), the id read for the entry (id2) and the
\* captured prev_hash
MakeEntry(ev, id1, id2, prev) ==
    LET content == [event_id |-> id1, timestamp |-> ev.timestamp,
                    session_id |-> ev.session_id,
                    candidate_id |-> ev.candidate_id, actor |-> ev.actor,
                    event_type |-> ev.event_type, action |-> ev.event_type,
                    payload |-> ev.payload, metadata |-> ev.metadata,
                    prev_hash |-> prev]
        entry_hash == compute_hash(JsonDumpsContent(content), FALSE)
    IN  [event_id |-> id2, timestamp |-> ev.timestamp,
         session_id |-> ev.session_id, candidate_id |-> ev.candidate_id,
         actor |-> ev.actor, event_type |-> ev.event_type,
         action |-> ev.event_type, payload |-> ev.payload,
         prev_hash |-> prev, hash |-> entry_hash, metadata |-> ev.metadata]

\* the fields record_event gives its entry: event_type = action = the action
\* argument, metadata = {}
LegacyEvent(session_id, actor, action, payload, candidate_id, timestamp) ==
    [event_type |-> action, session_id |-> session_id,
     candidate_id |-> candidate_id, timestamp |-> timestamp, actor |-> actor,
     payload |-> payload, metadata |-> EmptyDict]

\* the state update shared by both record methods, run without interruption
AppendSkipsId(ev) ==
    LET entry == MakeEntry(ev, next_event_id, next_event_id,
                           prev_hash_of(last_hash))
    IN  /\ entries' = Append(entries, entry)
        /\ last_hash' = entry.hash
        /\ next_event_id' = next_event_id + 2
AppendReplacesLast(ev) ==
    LET entry == MakeEntry(ev, next_event_id, next_event_id,
                           prev_hash_of(last_hash))
    IN  /\ entries' = IF entries = <<>> THEN <<entry>>
                      ELSE [entries EXCEPT ![Len(entries)] = entry]
        /\ last_hash' = entry.hash
        /\ next_event_id' = next_event_id + 1
AppendEntry(ev) ==
    LET entry == MakeEntry(ev, next_event_id, next_event_id,
                           prev_hash_of(last_hash))
    IN  /\ entries' = Append(entries, entry)
        /\ last_hash' = entry.hash
        /\ next_event_id' = next_event_id + 1

\* json.dumps(content, sort_keys=True) raises for the content of this event
DumpsRaises(ev) ==
    ~JsonSerializable(ev.payload) \/ ~JsonSerializable(ev.metadata)

\* AuditLedger.record_event(session_id, actor, action, payload, candidate_id),
\* run without interruption; timestamp is the reading of time.time();
\* json.dumps runs before any attribute is written
record_event(session_id, actor, action, payload, candidate_id, timestamp) ==
    IF DumpsRaises(LegacyEvent(session_id, actor, action, payload,
                               candidate_id, timestamp))
    THEN UNCHANGED ledgerVars
    ELSE AppendEntry(LegacyEvent(session_id, actor, action, payload,
                                 candidate_id, timestamp))

\* AuditLedger.record_audit_event(event), run without interruption
RecordAuditEventWaitsForAnchoring(event) ==
    /\ \A i \in 1..Len(anchors) : anchors[i].timestamped_at # None
    /\ IF DumpsRaises(event) THEN UNCHANGED ledgerVars ELSE AppendEntry(event)
RecordAuditEventCountsFirst(event) ==
    IF DumpsRaises(event)
    THEN /\ next_event_id' = next_event_id + 1
         /\ UNCHANGED <<entries, last_hash>>
    ELSE AppendEntry(event)
record_audit_event(event) ==
    IF DumpsRaises(event) THEN UNCHANGED ledgerVars ELSE AppendEntry(event)

\* --------------------------------------------------------- verification
\* AuditVerifier._verify_entry_hash(entry)
verify_entry_hash(entry) ==
    sha256(JsonDumpsContent(ContentOf(entry, entry.prev_hash))) = entry.hash

\* the stored hash of the entry before position i, genesis before the first
PredHash(es, i) == IF i = 1 THEN genesis_hash ELSE es[i - 1].hash

\* the loop of AuditLedger.verify_chain from position i with the running
\* prev_hash: False at the first entry whose recomputed hash differs
RECURSIVE VerifyChainFrom(_, _, _)
RECURSIVE VerifyChainFromChecksLink(_, _, _)
VerifyChainFromChecksLink(es, i, prev) ==
    IF i > Len(es) THEN TRUE
    ELSE IF \/ es[i].prev_hash # prev
            \/ compute_hash(JsonDumpsContent(ContentOf(es[i], prev)), FALSE)
                  # es[i].hash
         THEN FALSE
         ELSE VerifyChainFromChecksLink(es, i + 1, es[i].hash)
VerifyChainFrom(es, i, prev) ==
    IF i > Len(es) THEN TRUE
    ELSE IF compute_hash(JsonDumpsContent(ContentOf(es[i], prev)), FALSE) # es[i].hash
         THEN FALSE
         ELSE VerifyChainFrom(es, i + 1, es[i].hash)

\* AuditLedger.verify_chain()
VerifyChainStoredLinks(es) ==
    \A i \in 1..Len(es) :
        compute_hash(JsonDumpsContent(ContentOf(es[i], es[i].prev_hash)), FALSE)
            = es[i].hash
verify_chain(es) == VerifyChainFrom(es, 1, genesis_hash)

\* ------------------------------------------------------------- queries
\* AuditLedger.get_events_by_session(session_id)
GetEventsBySessionNewestFirst(es, session_id) ==
    LET found == SelectSeq(es, LAMBDA e : e.session_id = session_id)
    IN  [i \in 1..Len(found) |-> found[Len(found) + 1 - i]]
get_events_by_session(es, session_id) ==
    SelectSeq(es, LAMBDA e : e.session_id = session_id)

\* AuditLedger.get_events_by_candidate(candidate_id)
get_events_by_candidate(es, candidate_id) ==
    SelectSeq(es, LAMBDA e : e.candidate_id = candidate_id)

\* AuditLedger.get_events_by_type(event_type)
get_events_by_type(es, event_type) ==
    SelectSeq(es, LAMBDA e : e.event_type = event_type)

\* AuditLedger.get_last_event_hash(session_id)
get_last_event_hash(es, session_id) ==
    LET session_events == get_events_by_session(es, session_id)
    IN  IF session_events = <<>> THEN None
        ELSE session_events[Len(session_events)].hash

\* the loop of AuditLedger.verify_session_events over all entries from
\* position i with the running session_prev_hash: the invalid entries
RECURSIVE SessionInvalidFrom(_, _, _, _)
RECURSIVE SessionInvalidPerSession(_, _, _, _)
SessionInvalidPerSession(es, session_id, i, prev) ==
    IF i > Len(es) THEN <<>>
    ELSE IF es[i].session_id # session_id
         THEN SessionInvalidPerSession(es, session_id, i + 1, prev)
         ELSE (IF compute_hash(JsonDumpsContent(ContentOf(es[i], prev)), FALSE)
                     # es[i].hash
               THEN <<es[i]>> ELSE <<>>)
              \o SessionInvalidPerSession(es, session_id, i + 1, es[i].hash)
SessionInvalidFrom(es, session_id, i, prev) ==
    IF i > Len(es) THEN <<>>
    ELSE IF es[i].session_id # session_id
         THEN SessionInvalidFrom(es, session_id, i + 1, es[i].hash)
         ELSE (IF compute_hash(JsonDumpsContent(ContentOf(es[i], prev)), FALSE)
                     # es[i].hash
               THEN <<es[i]>> ELSE <<>>)
              \o SessionInvalidFrom(es, session_id, i + 1, es[i].hash)

\* AuditLedger.verify_session_events(session_id): <<is_valid, invalid_entries>>
verify_session_events(es, session_id) ==
    IF get_events_by_session(es, session_id) = <<>> THEN <<TRUE, <<>>>>
    ELSE LET invalid_entries == SessionInvalidFrom(es, session_id, 1,
                                                   genesis_hash)
         IN  <<Len(invalid_entries) = 0, invalid_entries>>

\* json.dumps(entry.to_dict()) of a LedgerEntry: every field, hash included
JsonDumpsEntry(e) ==
    <<"dict",
      <<"action", e.action>>, <<"actor", e.actor>>,
      <<"candidate_id", e.candidate_id>>, <<"event_id", e.event_id>>,
      <<"event_type", e.event_type>>, <<"hash", e.hash>>,
      <<"metadata", JsonDumpsDict(e.metadata)>>,
      <<"payload", JsonDumpsDict(e.payload)>>, <<"prev_hash", e.prev_hash>>,
      <<"session_id", e.session_id>>, <<"timestamp", e.timestamp>>>>

\* AuditLedger.export_audit_log: the lines written, one per entry
export_audit_log(es) == [i \in 1..Len(es) |-> JsonDumpsEntry(es[i])]

\* AuditLedger.export_for_attestation(session_id): the document written
ExportRelinksSession(es, session_id) ==
    LET session_events == get_events_by_session(es, session_id)
        n == Len(session_events)
    IN  [session_id |-> session_id,
         event_count |-> n,
         first_event_timestamp |->
             IF n > 0 THEN session_events[1].timestamp ELSE None,
         last_event_timestamp |->
             IF n > 0 THEN session_events[n].timestamp ELSE None,
         genesis_hash |-> genesis_hash,
         final_hash |-> IF n > 0 THEN session_events[n].hash ELSE genesis_hash,
         events |-> [i \in 1..n |->
                        JsonDumpsEntry(
                            [session_events[i] EXCEPT !.prev_hash =
                                 IF i = 1 THEN genesis_hash
                                 ELSE session_events[i - 1].hash])]]
export_for_attestation(es, session_id) ==
    LET session_events == get_events_by_session(es, session_id)
        n == Len(session_events)
    IN  [session_id |-> session_id,
         event_count |-> n,
         first_event_timestamp |->
             IF n > 0 THEN session_events[1].timestamp ELSE None,
         last_event_timestamp |->
             IF n > 0 THEN session_events[n].timestamp ELSE None,
         genesis_hash |-> genesis_hash,
         final_hash |-> IF n > 0 THEN session_events[n].hash ELSE genesis_hash,
         events |-> [i \in 1..n |-> JsonDumpsEntry(session_events[i])]]

\* -------------------------------------------------------------- verifier
\* AuditVerifier.verify_session(session_id): the VerificationResult, for a
\* session with at least one entry
VerificationResult(es, session_id, now) ==
    LET session_events == get_events_by_session(es, session_id)
        r == verify_session_events(es, session_id)
    IN  [is_valid |-> r[1] /\ Len(r[2]) = 0,
         session_id |-> session_id,
         checked_at |-> isoformat(now),
         event_count |-> Len(session_events),
         first_event_timestamp |-> session_events[1].timestamp,
         last_event_timestamp |->
             session_events[Len(session_events)].timestamp,
         invalid_entries |->
             [i \in 1..Len(r[2]) |->
                 [event_id |-> r[2][i].event_id,
                  timestamp |-> r[2][i].timestamp,
                  hash |-> r[2][i].hash, prev_hash |-> r[2][i].prev_hash]],
         chain_valid |-> r[1],
         warnings |-> <<>>,
         errors |-> [i \in 1..Len(r[2]) |->
                        <<"Invalid hash at event", r[2][i].event_id>>]]

\* the VerificationResult for a session without entries (not logged)
EmptyVerificationResult(session_id, now) ==
    [is_valid |-> TRUE, session_id |-> session_id, checked_at |-> isoformat(now),
     event_count |-> 0, first_event_timestamp |-> None,
     last_event_timestamp |-> None, invalid_entries |-> <<>>,
     chain_valid |-> TRUE,
     warnings |-> <<"No events found for session">>, errors |-> <<>>]

\* AuditVerifier.generate_integrity_report(session_id)
generate_integrity_report(es, session_id, now) ==
    LET session_events == get_events_by_session(es, session_id)
        chain_valid == verify_session_events(es, session_id)[1]
    IN  IF session_events = <<>>
        THEN [session_id |-> session_id, genesis_hash |-> GENESIS_HASH,
              final_hash |-> GENESIS_HASH, event_count |-> 0,
              chain_intact |-> TRUE, generated_at |-> isoformat(now),
              warnings |-> <<"No events in session">>]
        ELSE [session_id |-> session_id, genesis_hash |-> GENESIS_HASH,
              final_hash |-> session_events[Len(session_events)].hash,
              event_count |-> Len(session_events),
              chain_intact |-> chain_valid, generated_at |-> isoformat(now),
              warnings |-> IF chain_valid THEN <<>>
                           ELSE <<"Chain integrity compromised">>]

\* the ids min..max of a session's entries that none of its entries carries
MissingIds(session_events) ==
    LET event_ids == {session_events[i].event_id :
                         i \in 1..Len(session_events)}
        lo == CHOOSE m \in event_ids : \A k \in event_ids : m <= k
        hi == CHOOSE m \in event_ids : \A k \in event_ids : m >= k
    IN  (lo..hi) \ event_ids

\* the "Hash mismatch" issues of detect_tampering, in entry order
HashIssues(session_events) ==
    LET bad == SelectSeq(session_events, LAMBDA e : ~verify_entry_hash(e))
    IN  [i \in 1..Len(bad) |-> <<"Hash mismatch at event", bad[i].event_id>>]

\* the prev_hash issues of detect_tampering from position i of the session's
\* entries
RECURSIVE ChainIssuesFrom(_, _)
ChainIssuesFrom(session_events, i) ==
    IF i > Len(session_events) THEN <<>>
    ELSE (IF i = 1
          THEN (IF session_events[1].prev_hash # GENESIS_HASH
                THEN <<<<"First event has wrong prev_hash at event",
                         session_events[1].event_id>>>>
                ELSE <<>>)
          ELSE (IF session_events[i].prev_hash # session_events[i - 1].hash
                THEN <<<<"Broken chain at event", session_events[i].event_id>>>>
                ELSE <<>>))
         \o ChainIssuesFrom(session_events, i + 1)

\* AuditVerifier.detect_tampering(session_id): <<tampered, issues>>
detect_tampering(es, session_id) ==
    LET session_events == get_events_by_session(es, session_id)
        missing == MissingIds(session_events)
        issues == (IF missing # {} THEN <<<<"Missing event IDs", missing>>>>
                   ELSE <<>>)
                  \o HashIssues(session_events)
                  \o ChainIssuesFrom(session_events, 1)
    IN  IF session_events = <<>> THEN <<FALSE, <<>>>>
        ELSE <<Len(issues) > 0, issues>>

\* ----------------------------------------------------------- Merkle tree
\* MerkleTree._empty_hash = sha256(b"empty")
empty_hash == sha256(<<"str", "empty">>)

\* MerkleTree.hash_data(data)
hash_data(data) == sha256(data)

\* json.dumps([left_hash, right_hash], sort_keys=True)
JsonDumpsList(left_hash, right_hash) == <<"list", left_hash, right_hash>>

\* MerkleTree.hash_pair(left_hash, right_hash)
HashPairUnordered(left_hash, right_hash) ==
    sha256(<<"set", {left_hash, right_hash}>>)
HashPairSorted(left_hash, right_hash) ==
    sha256(JsonDumpsList(right_hash, left_hash))
hash_pair(left_hash, right_hash) ==
    sha256(JsonDumpsList(left_hash, right_hash))

\* one pass of the for loop of MerkleTree.build: the parents of a level; the
\* last node of an odd level is paired with itself.  A MerkleNode is
\* represented by its hash; its children are the nodes of the level below at
\* twice its position.
NextLevelDropsOdd(current_level) ==
    [i \in 1..(Len(current_level) \div 2) |->
        hash_pair(current_level[2 * i - 1], current_level[2 * i])]
NextLevel(current_level) ==
    [i \in 1..((Len(current_level) + 1) \div 2) |->
        LET left == current_level[2 * i - 1]
            right == IF 2 * i <= Len(current_level) THEN current_level[2 * i]
                     ELSE left
        IN  hash_pair(left, right)]

\* the while loop of MerkleTree.build: tree._levels from current_level up
RECURSIVE BuildLevels(_)
BuildLevels(current_level) ==
    IF Len(current_level) > 1
    THEN <<current_level>> \o BuildLevels(NextLevel(current_level))
    ELSE <<current_level>>

\* MerkleTree(): the empty tree
EmptyTree == [leaves |-> <<>>, root |-> None, levels |-> <<>>]

\* MerkleTree.build(data_items)
build(data_items) ==
    IF data_items = <<>> THEN EmptyTree
    ELSE LET leaves == [i \in 1..Len(data_items) |-> hash_data(data_items[i])]
             levels == BuildLevels(leaves)
         IN  [leaves |-> leaves, root |-> levels[Len(levels)][1],
              levels |-> levels]

\* MerkleTree.build_from_entries(entries)
build_from_entries(es) == build([i \in 1..Len(es) |-> JsonDumpsEntry(es[i])])

\* MerkleTree.get_root_hash()
GetRootHashGenesis(tree) ==
    IF tree.root # None THEN tree.root ELSE genesis_hash
get_root_hash(tree) == IF tree.root # None THEN tree.root ELSE empty_hash

\* Python list indexing seq[i]: zero-based, negative i counts from the end
PyInRange(seq, i) == -Len(seq) <= i /\ i < Len(seq)
PyGet(seq, i) == IF i >= 0 THEN seq[i + 1] ELSE seq[Len(seq) + i + 1]

\* Python's None where an object is expected
NoneObject == [none |-> TRUE]

\* raised IndexError
IndexError == [raised |-> "IndexError"]

\* the for loop of MerkleTree.prove_inclusion from level_idx (zero-based) with
\* the running current_idx: the (sibling_hash, is_left) pairs in data, ok FALSE
\* when an index is out of range
RECURSIVE ProofData(_, _, _)
ProofData(levels, level_idx, current_idx) ==
    IF level_idx >= Len(levels) - 1 THEN [ok |-> TRUE, data |-> <<>>]
    ELSE LET level == levels[level_idx + 1]
             is_left_sibling == current_idx % 2 = 0
             idx == IF is_left_sibling
                    THEN (IF current_idx + 1 < Len(level) THEN current_idx + 1
                          ELSE current_idx)
                    ELSE current_idx - 1
             rest == ProofData(levels, level_idx + 1, current_idx \div 2)
         IN  IF ~PyInRange(level, idx) \/ ~rest.ok
             THEN [ok |-> FALSE, data |-> <<>>]
             ELSE [ok |-> TRUE,
                   data |-> <<<<PyGet(level, idx), ~is_left_sibling>>>>
                            \o rest.data]

\* MerkleTree.prove_inclusion(leaf_index): a MerkleProof, None or IndexError
prove_inclusion(tree, leaf_index) ==
    IF leaf_index >= Len(tree.leaves) \/ tree.root = None THEN NoneObject
    ELSE IF ~PyInRange(tree.leaves, leaf_index) THEN IndexError
    ELSE LET proof_data == ProofData(tree.levels, 0, leaf_index)
         IN  IF ~proof_data.ok THEN IndexError
             ELSE [leaf_hash |-> PyGet(tree.leaves, leaf_index),
                   root_hash |-> tree.root,
                   proof |-> proof_data.data,
                   verified |-> FALSE]

\* the for loop of MerkleTree.verify_proof from step i with current_hash
RECURSIVE FoldProof(_, _, _)
FoldProof(proof_data, i, current_hash) ==
    IF i > Len(proof_data) THEN current_hash
    ELSE FoldProof(proof_data, i + 1,
                   IF proof_data[i][2]
                   THEN hash_pair(proof_data[i][1], current_hash)
                   ELSE hash_pair(current_hash, proof_data[i][1]))

\* MerkleTree.verify_proof(proof): the value returned and stored in
\* proof.verified
verify_proof(proof) ==
    FoldProof(proof.proof, 1, proof.leaf_hash) = proof.root_hash

\* ------------------------------------------------------------- calendar
\* A date is its day offset from January 1, 2026 (a Thursday), negative
\* before it; date.isoformat() of it stands for itself.  A year is counted
\* from 2026.  An optional date, week or month argument is None or the tagged
\* value <<"date", d>>, <<"week", w>>, <<"month", m>>.
Jan1Weekday == 3
DaysInMonth == <<31, 28, 31, 30, 31, 30, 31, 31, 30, 31, 30, 31>>

\* date(year, 1, 1) of the years 2019 to 2031, as day offsets
YearStarts ==
    <<-2557, -2192, -1826, -1461, -1096, -731, -365, 0, 365, 730, 1096, 1461,
      1826>>

\* date(year, 1, 1), the year counted from 2026
YearStart(year) == YearStarts[year + 8]

\* date.year of a day, counted from 2026
YearOf(d) ==
    CHOOSE year \in -7..4 : YearStart(year) <= d /\ d < YearStart(year + 1)

\* date.weekday(): Monday is 0
weekday(d) == (Jan1Weekday + d) % 7

\* date.isocalendar(): <<ISO year, ISO week>>
isocalendar(d) ==
    LET thursday == d - weekday(d) + 3
        year == YearOf(thursday)
    IN  <<year, (thursday - YearStart(year)) \div 7 + 1>>

\* date(year, month, 1) in a year that is not a leap year
RECURSIVE MonthStart(_, _)
MonthStart(year, month) ==
    IF month = 1 THEN YearStart(year)
    ELSE MonthStart(year, month - 1) + DaysInMonth[month - 1]

\* date.month of a day of the year of today
MonthOf(d) ==
    CHOOSE m \in 1..12 :
        MonthStart(0, m) <= d /\ d < MonthStart(0, m) + DaysInMonth[m]

\* PeriodicAggregation._get_events_in_range(start_date, end_date), also
\* _get_events_for_date with both ends the target date: from midnight of the
\* first day to the last second of the last day; [] when no ledger is set
GetEventsToNextMidnight(es, start_date, end_date) ==
    LET start_ts == start_date * SecondsPerDay
        end_ts == (end_date + 1) * SecondsPerDay
    IN  IF ~ledger_set THEN <<>>
        ELSE SelectSeq(es, LAMBDA entry :
                 start_ts <= entry.timestamp /\ entry.timestamp <= end_ts)
GetEventsEndExclusive(es, start_date, end_date) ==
    LET start_ts == start_date * SecondsPerDay
        end_ts == end_date * SecondsPerDay + (SecondsPerDay - 1)
    IN  IF ~ledger_set THEN <<>>
        ELSE SelectSeq(es, LAMBDA entry :
                 start_ts <= entry.timestamp /\ entry.timestamp < end_ts)
get_events_in_range(es, start_date, end_date) ==
    LET start_ts == start_date * SecondsPerDay
        end_ts == end_date * SecondsPerDay + (SecondsPerDay - 1)
    IN  IF ~ledger_set THEN <<>>
        ELSE SelectSeq(es, LAMBDA entry :
                 start_ts <= entry.timestamp /\ entry.timestamp <= end_ts)

\* the <<start_date, end_date>> of aggregate_daily(target_date)
DailyRange(target_date, today) ==
    LET d == IF target_date = None THEN today - 1 ELSE target_date[2]
    IN  <<d, d>>

\* the <<week_start, week_end>> of aggregate_weekly(target_week)
WeeklyRange(target_week, today) ==
    LET yw == IF target_week = None THEN isocalendar(today - 7)
              ELSE <<YearOf(today), target_week[2]>>
        jan_1 == YearStart(yw[1])
        first == jan_1 + 7 * (yw[2] - 1)
        week_start == first - weekday(first)
    IN  <<week_start, week_start + 6>>

\* the <<month_start, month_end>> of aggregate_monthly(target_month)
MonthlyRange(target_month, today) ==
    LET ym == IF target_month = None
              THEN (IF MonthOf(today) - 1 = 0 THEN <<-1, 12>>
                    ELSE <<0, MonthOf(today) - 1>>)
              ELSE <<0, target_month[2]>>
        month_start == MonthStart(ym[1], ym[2])
        next_start == IF ym[2] = 12 THEN YearStart(ym[1] + 1)
                      ELSE MonthStart(ym[1], ym[2] + 1)
    IN  <<month_start, next_start - 1>>

\* ------------------------------------------------------------- anchoring
\* PeriodicAnchoring._compute_anchor_hash(merkle_root, date)
ComputeAnchorHashRootOnly(merkle_root, date) ==
    sha256(<<"dict", <<"merkle_root", merkle_root>>>>)
compute_anchor_hash(merkle_root, date) ==
    sha256(<<"dict", <<"date", date>>, <<"merkle_root", merkle_root>>>>)

\* PeriodicAnchoring.create_daily_anchor(merkle_root, date, session_ids): the
\* TimestampAnchor it appends to anchors; session_ids comes from list(set(..))
\* and is kept as a set
NewAnchorHashesTime(merkle_root, date, session_ids, now) ==
    [merkle_root |-> merkle_root, date |-> date, timestamp |-> now,
     timestamped_at |-> None, tsa_response |-> None,
     session_count |-> Cardinality(session_ids), session_ids |-> session_ids,
     anchor_hash |-> compute_anchor_hash(merkle_root, now)]
NewAnchor(merkle_root, date, session_ids, now) ==
    [merkle_root |-> merkle_root, date |-> date, timestamp |-> now,
     timestamped_at |-> None, tsa_response |-> None,
     session_count |-> Cardinality(session_ids), session_ids |-> session_ids,
     anchor_hash |-> compute_anchor_hash(merkle_root, date)]

\* PeriodicAnchoring._mock_timestamp_response(merkle_root)
mock_timestamp_response(merkle_root, now) ==
    [merkle_root |-> merkle_root, timestamp |-> isoformat(now),
     tsa |-> "mock-tsa://localhost"]

\* PeriodicAnchoring.request_timestamp(merkle_root) of an instance made with
\* the given tsa_url: the mock response without a tsa_url, and the same mock
\* response as a placeholder with one
TimestampResponse(url, merkle_root, now) ==
    IF url = None THEN mock_timestamp_response(merkle_root, now)
    ELSE mock_timestamp_response(merkle_root, now)

\* PeriodicAnchoring.request_timestamp(merkle_root)
request_timestamp(merkle_root, now) ==
    TimestampResponse(tsa_url, merkle_root, now)

\* PeriodicAnchoring.apply_timestamp_to_anchor(anchor): the anchor afterwards
apply_timestamp_to_anchor(anchor, now) ==
    LET response == request_timestamp(anchor.merkle_root, now)
    IN  [anchor EXCEPT !.tsa_response = response,
                       !.timestamped_at = response.timestamp]

\* PeriodicAnchoring.verify_anchored_root(root, date)
verify_anchored_root(as, root, date) ==
    \E i \in 1..Len(as) : as[i].date = date /\ as[i].merkle_root = root

\* PeriodicAnchoring.get_anchor_by_date(date): the first anchor of that date
get_anchor_by_date(as, date) ==
    IF \E i \in 1..Len(as) : as[i].date = date
    THEN as[CHOOSE i \in 1..Len(as) :
                /\ as[i].date = date
                /\ \A j \in 1..(i - 1) : as[j].date # date]
    ELSE NoneObject

\* PeriodicAnchoring.verify_anchor_integrity(anchor)
VerifyAnchorIntegrityTrusting(anchor) == anchor.anchor_hash # None
verify_anchor_integrity(anchor) ==
    anchor.anchor_hash = compute_anchor_hash(anchor.merkle_root, anchor.date)

\* PeriodicAggregation.verify_anchor(target_date): the dict returned
VerifyAnchorRederivesRoot(as, target_date) ==
    LET anchor == get_anchor_by_date(as, target_date)
    IN  IF anchor = NoneObject
        THEN [verified |-> FALSE, date |-> target_date,
              error |-> "No anchor found for date"]
        ELSE [verified |->
                  /\ verify_anchor_integrity(anchor)
                  /\ anchor.merkle_root =
                        get_root_hash(build_from_entries(
                            get_events_in_range(entries, target_date,
                                                target_date))),
              date |-> target_date, merkle_root |-> anchor.merkle_root,
              session_count |-> anchor.session_count,
              timestamped |-> anchor.timestamped_at # None,
              timestamp |-> anchor.timestamped_at]
verify_anchor(as, target_date) ==
    LET anchor == get_anchor_by_date(as, target_date)
    IN  IF anchor = NoneObject
        THEN [verified |-> FALSE, date |-> target_date,
              error |-> "No anchor found for date"]
        ELSE [verified |-> verify_anchor_integrity(anchor),
              date |-> target_date, merkle_root |-> anchor.merkle_root,
              session_count |-> anchor.session_count,
              timestamped |-> anchor.timestamped_at # None,
              timestamp |-> anchor.timestamped_at]

\* PeriodicAggregation._create_aggregation(period, start_date, end_date,
\* events): the AggregationResult, its anchor timestamped
AggregationResultChained(period, start_date, end_date, events, now) ==
    LET session_ids == {events[i].session_id : i \in 1..Len(events)}
        tree == build_from_entries(events)
        merkle_root == IF last_aggregation[period] = None
                       THEN get_root_hash(tree)
                       ELSE hash_pair(last_aggregation[period],
                                      get_root_hash(tree))
        anchor == apply_timestamp_to_anchor(
                      NewAnchor(merkle_root, start_date, session_ids, now), now)
    IN  [period |-> period, start_date |-> start_date, end_date |-> end_date,
         event_count |-> Len(events),
         session_count |-> Cardinality(session_ids),
         merkle_root |-> merkle_root, anchor |-> anchor, anchored |-> TRUE,
         timestamped |-> anchor.timestamped_at # None, created_at |-> isoformat(now)]
AggregationResult(period, start_date, end_date, events, now) ==
    LET session_ids == {events[i].session_id : i \in 1..Len(events)}
        tree == build_from_entries(events)
        merkle_root == get_root_hash(tree)
        anchor == apply_timestamp_to_anchor(
                      NewAnchor(merkle_root, start_date, session_ids, now), now)
    IN  [period |-> period, start_date |-> start_date, end_date |-> end_date,
         event_count |-> Len(events),
         session_count |-> Cardinality(session_ids),
         merkle_root |-> merkle_root, anchor |-> anchor, anchored |-> TRUE,
         timestamped |-> anchor.timestamped_at # None, created_at |-> isoformat(now)]

\* ------------------------------------------------------ initial states
Threads == {"t1", "t2"}

\* the locals of a thread that has made no record call yet: the number of
\* calls it has returned from, the method and event of the call, the captured
\* prev_hash, the id read for the hashed content, the entry built and the
\* value read for the increment
IdleLocal ==
    [calls |-> 0, method |-> "none", ev |-> NoneObject, prev_hash |-> None,
     id1 |-> 0, entry |-> NoneObject, tmp |-> 0]

\* a fresh AuditLedger, AuditVerifier and PeriodicAggregation; no MerkleTree
\* built yet
BaseInit ==
    /\ entries = <<>>
    /\ next_event_id = 1
    /\ last_hash = None
    /\ verification_history = <<>>
    /\ anchors = <<>>
    /\ aggregation_history = <<>>
    /\ last_aggregation = [daily |-> None, weekly |-> None, monthly |-> None]
    /\ ret = [op |-> "init"]
    /\ tampers = 0
    /\ pc = [t \in Threads |-> "idle"]
    /\ local = [t \in Threads |-> IdleLocal]
    /\ mtree = EmptyTree
    /\ mproof = NoneObject
    /\ asked_index = 0
    /\ ledger_set = TRUE
    /\ held_alias = {}
    /\ clock = 2 * SecondsPerDay

Init ==
    BaseInit /\ items = <<>> /\ held_event = NoneObject /\ tsa_url = None

\* -------------------------------------- operations, one caller at a time
\* readings of the wall clock by the verifier and the aggregation
Clock == {2 * SecondsPerDay}

\* date.today() at the time of an aggregation, as a day of the year
Todays == {1}

\* explicit arguments of the aggregate methods, None for the default
TargetDates == {None} \cup {<<"date", d>> : d \in 1..MaxDay}
TargetWeeks == {None, <<"week", 1>>}
TargetMonths == {None, <<"month", 1>>}

\* a caller runs record_event with arguments from the given sets
RecordEvent(sessions, payloads, timestamps) ==
    \E session_id \in sessions, actor \in Actors, action \in Actions,
       payload \in payloads, timestamp \in timestamps :
        /\ record_event(session_id, actor, action, payload, "unknown",
                        timestamp)
        /\ ret' = IF DumpsRaises(LegacyEvent(session_id, actor, action,
                                             payload, "unknown", timestamp))
                  THEN [op |-> "record_event", raised |-> "TypeError",
                        arg |-> payload]
                  ELSE [op |-> "record_event",
                        value |-> entries'[Len(entries')]]
        /\ UNCHANGED <<verifierVars, aggVars, envVars>>

\* a caller runs record_audit_event with one of the given events
RecordAuditEvent(events) ==
    \E event \in events :
        /\ record_audit_event(event)
        /\ ret' = IF DumpsRaises(event)
                  THEN [op |-> "record_audit_event", raised |-> "TypeError",
                        arg |-> event]
                  ELSE [op |-> "record_audit_event",
                        value |-> entries'[Len(entries')]]
        /\ UNCHANGED <<verifierVars, aggVars, envVars>>

\* a call that only reads: op(arg) returned value
Returns(op, arg, value) ==
    /\ ret' = [op |-> op, arg |-> arg, value |-> value]
    /\ UNCHANGED <<ledgerVars, verifierVars, aggVars, envVars>>

GetEventsBySession ==
    \E session_id \in Sessions :
        Returns("get_events_by_session", session_id,
                get_events_by_session(entries, session_id))

GetEventsByCandidate ==
    \E candidate_id \in Candidates \cup {"unknown"} :
        Returns("get_events_by_candidate", candidate_id,
                get_events_by_candidate(entries, candidate_id))

GetEventsByType ==
    \E event_type \in EventTypes \cup Actions :
        Returns("get_events_by_type", event_type,
                get_events_by_type(entries, event_type))

ExportAuditLog ==
    Returns("export_audit_log", "path", export_audit_log(entries))

ExportForAttestation ==
    \E session_id \in Sessions :
        Returns("export_for_attestation", session_id,
                export_for_attestation(entries, session_id))

VerifyChain == Returns("verify_chain", "none", verify_chain(entries))

\* AuditVerifier.verify_session(session_id): the result is logged in
\* verification_history unless the session has no entries
VerifySession ==
    \E session_id \in Sessions, now \in Clock :
        IF get_events_by_session(entries, session_id) = <<>>
        THEN Returns("verify_session", session_id,
                     EmptyVerificationResult(session_id, now))
        ELSE /\ Len(verification_history) < MaxVerifications
             /\ LET result == VerificationResult(entries, session_id, now)
                IN  /\ verification_history' =
                           Append(verification_history, result)
                    /\ ret' = [op |-> "verify_session", arg |-> session_id,
                               value |-> result]
             /\ UNCHANGED <<ledgerVars, aggVars, envVars>>

GenerateIntegrityReport ==
    \E session_id \in Sessions, now \in Clock :
        Returns("generate_integrity_report", session_id,
                generate_integrity_report(entries, session_id, now))

DetectTampering ==
    \E session_id \in Sessions :
        Returns("detect_tampering", session_id,
                detect_tampering(entries, session_id))

\* PeriodicAggregation._create_aggregation: the state it leaves
create_aggregation(period, start_date, end_date, events, now) ==
    LET result == AggregationResult(period, start_date, end_date, events, now)
    IN  /\ anchors' = Append(anchors, result.anchor)
        /\ aggregation_history' = Append(aggregation_history, result)
        /\ last_aggregation' =
               [last_aggregation EXCEPT ![period] = result.merkle_root]
        /\ ret' = [op |-> "aggregate", arg |-> period, value |-> result]
        /\ UNCHANGED <<ledgerVars, verifierVars, envVars, ledger_set, tsa_url>>

\* PeriodicAggregation.aggregate_daily(target_date)
AggregateDaily ==
    \E target_date \in TargetDates, today \in Todays, now \in {clock} :
        LET range == DailyRange(target_date, today)
        IN  create_aggregation("daily", range[1], range[2],
                get_events_in_range(entries, range[1], range[2]), now)

\* PeriodicAggregation.aggregate_weekly(target_week)
AggregateWeekly ==
    \E target_week \in TargetWeeks, today \in Todays, now \in {clock} :
        LET range == WeeklyRange(target_week, today)
        IN  create_aggregation("weekly", range[1], range[2],
                get_events_in_range(entries, range[1], range[2]), now)

\* PeriodicAggregation.aggregate_monthly(target_month)
AggregateMonthly ==
    \E target_month \in TargetMonths, today \in Todays, now \in {clock} :
        LET range == MonthlyRange(target_month, today)
        IN  create_aggregation("monthly", range[1], range[2],
                get_events_in_range(entries, range[1], range[2]), now)

VerifyAnchor ==
    \E target_date \in 0..MaxDay :
        Returns("verify_anchor", target_date, verify_anchor(anchors, target_date))

\* appends only, by callers that take turns, with every input
Next ==
    \/ Len(entries) < MaxEntries /\ RecordEvent(Sessions, Payloads, Timestamps)
    \/ Len(entries) < MaxEntries /\ RecordAuditEvent(AuditEvent)

Spec == Init /\ [][Next]_vars

\* the events recorded while the other operations run: session S1 on day 0
\* through record_event, S2 and S1 on day 1 through record_audit_event
OpsEvents ==
    {e \in AuditEvent :
        /\ e.timestamp = SecondsPerDay
        /\ \/ e.session_id = "S2" /\ e.payload = [a |-> 2]
           \/ e.session_id = "S1" /\ e.payload = [a |-> 1]}

\* every operation of the ledger, the verifier and the aggregation, by
\* callers that take turns
NextOps ==
    \/ Len(entries) < MaxOpsEntries /\ RecordEvent({"S1"}, {[a |-> 1]}, {0})
    \/ Len(entries) < MaxOpsEntries /\ RecordAuditEvent(OpsEvents)
    \/ GetEventsBySession
    \/ GetEventsByCandidate
    \/ GetEventsByType
    \/ ExportAuditLog
    \/ ExportForAttestation
    \/ VerifyChain
    \/ VerifySession
    \/ GenerateIntegrityReport
    \/ DetectTampering
    \/ Len(aggregation_history) < MaxAggregations /\ AggregateDaily
    \/ Len(aggregation_history) < MaxAggregations /\ AggregateWeekly
    \/ Len(aggregation_history) < MaxAggregations /\ AggregateMonthly
    \/ VerifyAnchor

SpecOps == Init /\ [][NextOps]_vars

\* appends, the three queries and the attestation export, one caller at a
\* time
NextQuery ==
    \/ Len(entries) < MaxEntries /\ RecordEvent({"S1"}, {[a |-> 1]}, {0})
    \/ Len(entries) < MaxEntries /\ RecordAuditEvent(OpsEvents)
    \/ GetEventsBySession
    \/ GetEventsByCandidate
    \/ GetEventsByType
    \/ ExportForAttestation

SpecQuery == Init /\ [][NextQuery]_vars

\* ------------------------------------- aggregation runs one after another
\* the events recorded between aggregation runs: S2 at midnight of day 1
\* (S1 is recorded on day 0 through record_event)
AggEvents ==
    {e \in AuditEvent : /\ e.session_id = "S2" /\ e.timestamp = SecondsPerDay
                        /\ e.payload = [a |-> 1]}

\* PeriodicAggregation.set_ledger(ledger), with a ledger or with None
SetLedger ==
    \E ledger \in BOOLEAN :
        /\ ledger_set' = ledger
        /\ ret' = [op |-> "set_ledger", arg |-> ledger]
        /\ UNCHANGED <<ledgerVars, verifierVars, anchors, aggregation_history,
                       last_aggregation, tsa_url, envVars>>

\* time passes: a second on the wall clock
Tick ==
    /\ clock < 2 * SecondsPerDay + MaxTicks
    /\ clock' = clock + 1
    /\ UNCHANGED <<ledgerVars, verifierVars, aggVars, ret, tampers, threadVars,
                   merkleVars, held_event, held_alias>>

NextAgg ==
    \/ Len(entries) < MaxOpsEntries /\ RecordEvent({"S1"}, {[a |-> 1]}, {0})
    \/ Len(entries) < MaxOpsEntries /\ RecordAuditEvent(AggEvents)
    \/ SetLedger
    \/ Len(aggregation_history) < MaxAggRuns /\ AggregateDaily
    \/ Len(aggregation_history) < MaxAggRuns /\ AggregateWeekly
    \/ Len(aggregation_history) < MaxAggRuns /\ AggregateMonthly

SpecAgg == Init /\ [][NextAgg]_vars

\* --------------------------------- entries at the boundaries of a period
\* the first and the last second of each day
RangeTimestamps ==
    {d * SecondsPerDay : d \in 0..MaxDay}
    \cup {d * SecondsPerDay + (SecondsPerDay - 1) : d \in 0..MaxDay}

\* the events recorded at those times, in any order of their timestamps:
\* session S1 in the first second of a day, S2 in the last
RangeEvents ==
    {e \in [event_type : EventTypes, session_id : Sessions,
            candidate_id : Candidates, timestamp : RangeTimestamps,
            actor : Actors, payload : {[a |-> 1]}, metadata : Metadatas] :
        e.session_id = "S1" <=> e.timestamp % SecondsPerDay = 0}

NextRange ==
    \/ Len(entries) < MaxOpsEntries /\ RecordAuditEvent(RangeEvents)
    \/ Len(aggregation_history) < MaxAggregations /\ AggregateDaily
    \/ Len(aggregation_history) < MaxAggregations /\ AggregateWeekly
    \/ Len(aggregation_history) < MaxAggregations /\ AggregateMonthly

SpecRange == Init /\ [][NextRange]_vars

\* ------------------------------------- the default week, on any day
\* the days date.today() may return: January 8, 2019 to December 31, 2030
WeekTodays == (YearStart(-7) + 7)..(YearStart(5) - 1)

\* fresh instances, on a day the wall clock shows at noon
InitWeek ==
    /\ entries = <<>>
    /\ next_event_id = 1
    /\ last_hash = None
    /\ verification_history = <<>>
    /\ anchors = <<>>
    /\ aggregation_history = <<>>
    /\ last_aggregation = [daily |-> None, weekly |-> None, monthly |-> None]
    /\ ret = [op |-> "init"]
    /\ tampers = 0
    /\ pc = [t \in Threads |-> "idle"]
    /\ local = [t \in Threads |-> IdleLocal]
    /\ items = <<>>
    /\ mtree = EmptyTree
    /\ mproof = NoneObject
    /\ asked_index = 0
    /\ ledger_set = TRUE
    /\ held_event = NoneObject
    /\ held_alias = {}
    /\ tsa_url = None
    /\ clock \in {today * SecondsPerDay + SecondsPerDay \div 2 :
                     today \in WeekTodays}

\* PeriodicAggregation.aggregate_weekly() with no argument, date.today()
\* being the day the wall clock shows
AggregateLastWeek ==
    LET range == WeeklyRange(None, clock \div SecondsPerDay)
    IN  create_aggregation("weekly", range[1], range[2],
            get_events_in_range(entries, range[1], range[2]), clock)

NextWeek == Len(aggregation_history) < MaxAggregations /\ AggregateLastWeek

SpecWeek == InitWeek /\ [][NextWeek]_vars

\* ----------------------------- aggregation with and without an authority
\* the tsa_url a PeriodicAggregation is constructed with
TsaUrls == {None, <<"url", "https://tsa.example">>}

InitTsa ==
    BaseInit /\ items = <<>> /\ held_event = NoneObject /\ tsa_url \in TsaUrls

NextTsa ==
    \/ Len(entries) < MaxOpsEntries /\ RecordEvent({"S1"}, {[a |-> 1]}, {0})
    \/ Len(entries) < MaxOpsEntries /\ RecordAuditEvent(AggEvents)
    \/ Len(aggregation_history) < MaxAggRuns /\ AggregateDaily
    \/ VerifyAnchor

SpecTsa == InitTsa /\ [][NextTsa]_vars

\* ------------------------------------------------ events and their schemas
\* events.EventType, by value
EventType ==
    {"session_start", "session_end", "consent_recorded", "diagnostic_start",
     "diagnostic_submit", "interview_start", "interview_submit",
     "answer_submitted", "item_viewed", "terminate", "timeout",
     "scoring_run_created", "scoring_rescore"}

\* events.PAYLOAD_SCHEMAS
PAYLOAD_SCHEMAS ==
    [t \in EventType |->
        CASE t = "session_start" ->
               [required |-> <<"ip_address", "user_agent">>,
                optional |-> <<"browser_fingerprint", "platform">>]
          [] t = "session_end" ->
               [required |-> <<"reason">>,
                optional |-> <<"duration_seconds", "events_completed">>]
          [] t = "consent_recorded" ->
               [required |-> <<"consent_version", "consent_given">>,
                optional |-> <<"ip_address">>]
          [] t = "diagnostic_start" ->
               [required |-> <<"item_count">>, optional |-> <<"time_limit">>]
          [] t = "diagnostic_submit" ->
               [required |-> <<"items_attempted", "items_correct">>,
                optional |-> <<"time_taken_seconds">>]
          [] t = "interview_start" ->
               [required |-> <<"challenge_ids">>,
                optional |-> <<"time_limit">>]
          [] t = "interview_submit" ->
               [required |-> <<"responses_recorded">>,
                optional |-> <<"duration_seconds">>]
          [] t = "answer_submitted" ->
               [required |-> <<"item_id", "response">>,
                optional |-> <<"time_taken_seconds", "flagged">>]
          [] t = "item_viewed" ->
               [required |-> <<"item_id">>,
                optional |-> <<"view_duration_seconds">>]
          [] t = "terminate" ->
               [required |-> <<"reason">>, optional |-> <<"actor", "notes">>]
          [] t = "timeout" ->
               [required |-> <<"session_duration">>,
                optional |-> <<"last_activity">>]
          [] t = "scoring_run_created" ->
               [required |-> <<"score_run_id", "response_snapshot_id",
                               "rubric_version", "input_hash", "output_hash">>,
                optional |-> <<"feature_version">>]
          [] t = "scoring_rescore" ->
               [required |-> <<"score_run_id", "response_snapshot_id",
                               "rubric_version", "input_hash", "output_hash">>,
                optional |-> <<"feature_version", "reason">>]]

\* PAYLOAD_SCHEMAS.get(event_type, {}).get("required", [])
required_fields(event_type) ==
    IF event_type \in DOMAIN PAYLOAD_SCHEMAS
    THEN PAYLOAD_SCHEMAS[event_type].required
    ELSE <<>>

\* AuditEvent.validate_payload(): false at the first required field that is
\* not a key of the payload
ValidatePayloadStrict(event) ==
    /\ \A i \in 1..Len(required_fields(event.event_type)) :
          required_fields(event.event_type)[i] \in DOMAIN event.payload
    /\ \A k \in DOMAIN event.payload :
          \/ \E i \in 1..Len(required_fields(event.event_type)) :
                required_fields(event.event_type)[i] = k
          \/ \E i \in 1..Len(PAYLOAD_SCHEMAS[event.event_type].optional) :
                PAYLOAD_SCHEMAS[event.event_type].optional[i] = k
validate_payload(event) ==
    \A i \in 1..Len(required_fields(event.event_type)) :
        required_fields(event.event_type)[i] \in DOMAIN event.payload

\* the event kinds and payloads a caller builds events from
SchemaEventTypes == {"session_end", "answer_submitted"}
SchemaPayloads ==
    {EmptyDict, [reason |-> 1], [item_id |-> 1],
     [item_id |-> 1, response |-> 1],
     [item_id |-> 1, reason |-> 1, response |-> 1],
     [reason |-> NotSerializable]}

\* events.create_event(event_type, session_id, candidate_id, actor, payload,
\* timestamp=timestamp): metadata defaults to {}; the timestamp argument is
\* None or <<"float", t>>, and the event gets timestamp or time.time()
create_event(event_type, session_id, candidate_id, actor, payload, timestamp, now) ==
    [event_type |-> event_type, session_id |-> session_id,
     candidate_id |-> candidate_id,
     timestamp |-> IF timestamp = None \/ timestamp[2] = 0 THEN now
                   ELSE timestamp[2],
     actor |-> actor, payload |-> payload, metadata |-> EmptyDict]

\* a caller builds an event and keeps it
CreateEvent ==
    \E event_type \in SchemaEventTypes, payload \in SchemaPayloads :
        /\ held_event' = create_event(event_type, "S1", "c1", "system",
                                      payload, None, clock)
        /\ held_alias' = {}
        /\ ret' = [op |-> "create_event", value |-> held_event']
        /\ UNCHANGED <<ledgerVars, verifierVars, aggVars, tampers,
                       threadVars, merkleVars, clock>>

\* the caller runs validate_payload on the event it holds
ValidatePayload ==
    /\ held_event # NoneObject
    /\ Returns("validate_payload", held_event, validate_payload(held_event))

\* the caller hands the event it holds to record_audit_event, which stores
\* event.payload and event.metadata themselves in the new entry
RecordHeldEvent ==
    /\ held_event # NoneObject
    /\ record_audit_event(held_event)
    /\ ret' = IF DumpsRaises(held_event)
              THEN [op |-> "record_audit_event", raised |-> "TypeError",
                    arg |-> held_event]
              ELSE [op |-> "record_audit_event",
                    value |-> entries'[Len(entries')]]
    /\ held_alias' = IF DumpsRaises(held_event) THEN held_alias
                     ELSE held_alias \cup {Len(entries) + 1}
    /\ UNCHANGED <<verifierVars, aggVars, tampers, threadVars, merkleVars,
                   clock, held_event>>

NextSchema ==
    \/ CreateEvent
    \/ ValidatePayload
    \/ Len(entries) < MaxSchemaEntries /\ RecordHeldEvent
    \/ Len(entries) < MaxSchemaEntries
          /\ RecordEvent({"S2"}, {[a |-> 1], [a |-> NotSerializable]}, {0})

SpecSchema == Init /\ [][NextSchema]_vars

\* ------------------------------------ events made with a given timestamp
\* the timestamp argument of create_event: left out, the epoch, or a later
\* time
EventTimestamps ==
    {None} \cup {<<"float", d * SecondsPerDay>> : d \in 0..MaxDay}

\* a caller builds an event with that argument and keeps it
CreateEventAt ==
    \E event_type \in SchemaEventTypes, payload \in {[reason |-> 1]},
       timestamp \in EventTimestamps :
        /\ held_event' = create_event(event_type, "S1", "c1", "system",
                                      payload, timestamp, clock)
        /\ held_alias' = {}
        /\ ret' = [op |-> "create_event", arg |-> timestamp,
                   value |-> held_event']
        /\ UNCHANGED <<ledgerVars, verifierVars, aggVars, tampers,
                       threadVars, merkleVars, clock>>

NextCreate ==
    \/ CreateEventAt
    \/ Len(entries) < MaxSchemaEntries /\ RecordHeldEvent
    \/ Tick

SpecCreate == Init /\ [][NextCreate]_vars

\* ---------------------------------- the caller keeps the event it appended
\* the caller writes into the payload dict of the event it holds
\* (event.payload[key] = value, del event.payload[key]); the entries that
\* were built from this event hold the same dict
MutateHeldPayload ==
    /\ held_event # NoneObject
    /\ \E payload \in (SchemaPayloads \ {[reason |-> NotSerializable]})
                        \ {held_event.payload} :
          /\ held_event' = [held_event EXCEPT !.payload = payload]
          /\ entries' = [i \in 1..Len(entries) |->
                             IF i \in held_alias
                             THEN [entries[i] EXCEPT !.payload = payload]
                             ELSE entries[i]]
          /\ ret' = [op |-> "mutate_payload", value |-> payload]
    /\ UNCHANGED <<next_event_id, last_hash, verifierVars, aggVars, tampers,
                   threadVars, merkleVars, clock, held_alias>>

NextAlias ==
    \/ CreateEvent
    \/ Len(entries) < MaxSchemaEntries /\ RecordHeldEvent
    \/ MutateHeldPayload
    \/ VerifyChain

SpecAlias == Init /\ [][NextAlias]_vars

\* ------------------------------------------------ anchors made directly
\* the roots and dates a caller anchors and asks about
AnchorRoots == {sha256(<<"str", "r1">>), sha256(<<"str", "r2">>)}
AnchorDates == {0, 1}

\* the (merkle_root, date, session_ids) a caller passes to create_daily_anchor
AnchorInputs ==
    {<<sha256(<<"str", "r1">>), 0, {}>>,
     <<sha256(<<"str", "r1">>), 0, {"S1"}>>,
     <<sha256(<<"str", "r2">>), 1, {"S1", "S2"}>>}

\* PeriodicAnchoring.create_daily_anchor(merkle_root, date, session_ids)
CreateDailyAnchor ==
    \E input \in AnchorInputs :
        LET anchor == NewAnchor(input[1], input[2], input[3], clock)
        IN  /\ Len(anchors) < MaxAnchors
            /\ anchors' = Append(anchors, anchor)
            /\ ret' = [op |-> "create_daily_anchor",
                       arg |-> <<input[1], input[2]>>, value |-> anchor]
            /\ UNCHANGED <<ledgerVars, verifierVars, aggregation_history,
                           last_aggregation, ledger_set, tsa_url, envVars>>

\* PeriodicAnchoring.apply_timestamp_to_anchor(anchor), on a stored anchor
ApplyTimestampToAnchor ==
    \E i \in 1..Len(anchors) :
        LET anchor == apply_timestamp_to_anchor(anchors[i], clock)
        IN  /\ anchors' = [anchors EXCEPT ![i] = anchor]
            /\ ret' = [op |-> "apply_timestamp_to_anchor", arg |-> i,
                       value |-> anchor]
            /\ UNCHANGED <<ledgerVars, verifierVars, aggregation_history,
                           last_aggregation, ledger_set, tsa_url, envVars>>

\* PeriodicAnchoring.verify_anchored_root(root, date)
VerifyAnchoredRoot ==
    \E root \in AnchorRoots, date \in AnchorDates :
        Returns("verify_anchored_root", <<root, date>>,
                verify_anchored_root(anchors, root, date))

NextAnchor ==
    \/ CreateDailyAnchor
    \/ ApplyTimestampToAnchor
    \/ VerifyAnchoredRoot
    \/ Tick

SpecAnchor == Init /\ [][NextAnchor]_vars

\* ------------------------------------------- stored entries altered
\* the events recorded before stored entries are altered
TamperEvents ==
    {e \in AuditEvent : e.timestamp = 0 /\ e.payload = [a |-> 1]}

\* someone with access to the store alters one field of stored entry i
\* without going through the ledger's methods
Altered(es) ==
    /\ tampers < MaxTampers
    /\ entries' = es
    /\ tampers' = tampers + 1
    /\ ret' = [op |-> "alter"]
    /\ UNCHANGED <<next_event_id, last_hash, verifierVars, aggVars, callerVars, threadVars,
                   merkleVars>>

AlterPayload ==
    \E i \in 1..Len(entries) : \E p \in Payloads \ {entries[i].payload} :
        Altered([entries EXCEPT ![i].payload = p])

AlterPrevHash ==
    \E i \in 1..Len(entries) :
        \E h \in ({genesis_hash} \cup {entries[j].hash : j \in 1..Len(entries)})
                 \ {entries[i].prev_hash} :
            Altered([entries EXCEPT ![i].prev_hash = h])

\* the stored hash is replaced by one recomputed from the stored fields, with
\* the stored prev_hash or with the predecessor's stored hash
AlterHash ==
    \E i \in 1..Len(entries) :
        \E h \in {sha256(JsonDumpsContent(
                      ContentOf(entries[i], entries[i].prev_hash))),
                  sha256(JsonDumpsContent(
                      ContentOf(entries[i], PredHash(entries, i))))}
                 \ {entries[i].hash} :
            Altered([entries EXCEPT ![i].hash = h])

NextTamper ==
    \/ Len(entries) < MaxTamperEntries /\ RecordEvent({"S1"}, {[a |-> 1]}, {0})
    \/ Len(entries) < MaxTamperEntries /\ RecordAuditEvent(TamperEvents)
    \/ AlterPayload
    \/ AlterPrevHash
    \/ AlterHash
    \/ VerifyChain
    \/ DetectTampering

SpecTamper == Init /\ [][NextTamper]_vars

\* ------------------------------------------- stored entries removed
\* the entries left when those at the given positions are deleted from the
\* list (del ledger.entries[i]); nothing else is touched
DeleteFrom(es, removed) ==
    LET kept == (1..Len(es)) \ removed
    IN  [k \in 1..Cardinality(kept) |->
            es[CHOOSE i \in kept : Cardinality({j \in kept : j <= i}) = k]]

\* someone with access to the store deletes one or more stored entries
RemoveEntries ==
    \E removed \in (SUBSET (1..Len(entries))) \ {{}} :
        Altered(DeleteFrom(entries, removed))

NextRemove ==
    \/ Len(entries) < MaxEntries /\ RecordEvent({"S1"}, {[a |-> 1]}, {0})
    \/ RemoveEntries
    \/ VerifyChain

SpecRemove == Init /\ [][NextRemove]_vars

\* ------------------------------------------- stored anchors altered
\* someone with access to the store alters stored anchor i; the
\* AggregationResult of the run that made it holds the same object
AlteredAnchor(i, anchor) ==
    /\ tampers < MaxTampers
    /\ anchors' = [anchors EXCEPT ![i] = anchor]
    /\ aggregation_history' = [aggregation_history EXCEPT ![i].anchor = anchor]
    /\ tampers' = tampers + 1
    /\ ret' = [op |-> "alter_anchor"]
    /\ UNCHANGED <<ledgerVars, verifierVars, last_aggregation, ledger_set, tsa_url,
                   callerVars, threadVars, merkleVars>>

\* the stored anchor_hash is replaced by a forged one, or by the one
\* recomputed from the stored fields
AlterAnchorHash ==
    \E i \in 1..Len(anchors) :
        \E h \in {sha256(<<"str", "forged">>),
                  compute_anchor_hash(anchors[i].merkle_root, anchors[i].date)}
                 \ {anchors[i].anchor_hash} :
            AlteredAnchor(i, [anchors[i] EXCEPT !.anchor_hash = h])

AlterAnchorRoot ==
    \E i \in 1..Len(anchors) :
        \E root \in {sha256(<<"str", "r1">>)} \ {anchors[i].merkle_root} :
            AlteredAnchor(i, [anchors[i] EXCEPT !.merkle_root = root])

\* the records that differ from a stored anchor in one field other than
\* anchor_hash: merkle_root, date, session_ids, session_count, timestamp,
\* timestamped_at or tsa_response
AnchorAlterations(anchor) ==
    {[anchor EXCEPT !.merkle_root = sha256(<<"str", "r1">>)],
     [anchor EXCEPT !.date = MaxDay - anchor.date],
     [anchor EXCEPT !.session_ids = {"S1", "S2"}],
     [anchor EXCEPT !.session_count = anchor.session_count + 1],
     [anchor EXCEPT !.timestamp = anchor.timestamp - 1],
     [anchor EXCEPT !.timestamped_at = isoformat(0)],
     [anchor EXCEPT !.tsa_response =
          [anchor.tsa_response EXCEPT !.timestamp = isoformat(0)]]}
    \ {anchor}

\* someone with access to the store alters one such field of a stored anchor
AlterAnchorField ==
    \E i \in 1..Len(anchors) : \E anchor \in AnchorAlterations(anchors[i]) :
        AlteredAnchor(i, anchor)

\* daily aggregations, alterations of single fields of their anchors, and
\* verify_anchor at any time
NextAnchorFields ==
    \/ Len(entries) < MaxOpsEntries /\ RecordAuditEvent(AggEvents)
    \/ Len(aggregation_history) < MaxAggregations /\ AggregateDaily
    \/ AlterAnchorField
    \/ VerifyAnchor

SpecAnchorFields == Init /\ [][NextAnchorFields]_vars

\* daily aggregations and alterations of their anchors in any order, and
\* verify_anchor at any time
NextVerifyAnchor ==
    \/ Len(entries) < MaxOpsEntries /\ RecordAuditEvent(AggEvents)
    \/ Len(aggregation_history) < MaxAggRuns /\ AggregateDaily
    \/ AlterAnchorHash
    \/ AlterAnchorRoot
    \/ VerifyAnchor

SpecVerifyAnchor == Init /\ [][NextVerifyAnchor]_vars

\* appends and alterations of stored entries after a daily aggregation, and
\* verify_anchor at any time
NextAnchorLedger ==
    \/ Len(entries) < MaxOpsEntries /\ RecordEvent({"S1"}, {[a |-> 1]}, {0})
    \/ Len(entries) < MaxOpsEntries /\ RecordAuditEvent(AggEvents)
    \/ AlterPayload
    \/ Len(aggregation_history) < MaxAggregations /\ AggregateDaily
    \/ VerifyAnchor

SpecAnchorLedger == Init /\ [][NextAnchorLedger]_vars

\* sessions verified one by one on a ledger whose entries may be altered
NextSession ==
    \/ Len(entries) < MaxTamperEntries /\ RecordEvent({"S1"}, {[a |-> 1]}, {0})
    \/ Len(entries) < MaxTamperEntries /\ RecordAuditEvent(TamperEvents)
    \/ AlterPayload
    \/ AlterPrevHash
    \/ AlterHash
    \/ VerifySession

SpecSession == Init /\ [][NextSession]_vars

\* ------------------------------------------- appends by several threads
\* One step per access to the ledger's shared attributes; the interpreter
\* may switch threads between any two of them (no lock is taken).
AllReturned == \A t \in Threads : pc[t] = "idle"

\* thread t steps to position p with its locals changed to l
Goto(t, p, l) ==
    /\ pc' = [pc EXCEPT ![t] = p]
    /\ local' = [local EXCEPT ![t] = l]

\* the event thread t records: its own session, on day 0
ThreadSession(t) == IF t = "t1" THEN "S1" ELSE "S2"

\* record_event called: timestamp = time.time()
CallRecordEvent(t) ==
    /\ pc[t] = "idle"
    /\ local[t].calls < MaxCallsPerThread
    /\ Goto(t, "test_last",
            [local[t] EXCEPT !.method = "record_event",
                             !.ev = LegacyEvent(ThreadSession(t), "system",
                                                "login", [a |-> 1], "unknown",
                                                0)])
    /\ UNCHANGED <<ledgerVars, verifierVars, aggVars, callerVars, ret, tampers, merkleVars>>

\* record_audit_event called: timestamp = event.timestamp
CallRecordAuditEvent(t) ==
    /\ pc[t] = "idle"
    /\ local[t].calls < MaxCallsPerThread
    /\ \E event \in {e \in AuditEvent : /\ e.session_id = ThreadSession(t)
                                        /\ e.timestamp = 0
                                        /\ e.payload = [a |-> 1]} :
          Goto(t, "test_last",
               [local[t] EXCEPT !.method = "record_audit_event", !.ev = event])
    /\ UNCHANGED <<ledgerVars, verifierVars, aggVars, callerVars, ret, tampers, merkleVars>>

\* prev_hash = ... if self._last_hash is not None else self._genesis_hash
TestLast(t) ==
    /\ pc[t] = "test_last"
    /\ IF last_hash # None
       THEN Goto(t, "load_last", local[t])
       ELSE Goto(t, "load_id1", [local[t] EXCEPT !.prev_hash = genesis_hash])
    /\ UNCHANGED <<ledgerVars, verifierVars, aggVars, callerVars, ret, tampers, merkleVars>>

\* prev_hash = self._last_hash
LoadLast(t) ==
    /\ pc[t] = "load_last"
    /\ Goto(t, "load_id1", [local[t] EXCEPT !.prev_hash = last_hash])
    /\ UNCHANGED <<ledgerVars, verifierVars, aggVars, callerVars, ret, tampers, merkleVars>>

\* content = {"event_id": self._next_event_id, ...}
LoadId1(t) ==
    /\ pc[t] = "load_id1"
    /\ Goto(t, "load_id2", [local[t] EXCEPT !.id1 = next_event_id])
    /\ UNCHANGED <<ledgerVars, verifierVars, aggVars, callerVars, ret, tampers, merkleVars>>

\* entry = LedgerEntry(event_id=self._next_event_id, ..., hash=entry_hash)
LoadId2(t) ==
    /\ pc[t] = "load_id2"
    /\ Goto(t, "append",
            [local[t] EXCEPT !.entry = MakeEntry(local[t].ev, local[t].id1,
                                                 next_event_id,
                                                 local[t].prev_hash)])
    /\ UNCHANGED <<ledgerVars, verifierVars, aggVars, callerVars, ret, tampers, merkleVars>>

\* self.entries.append(entry)
AppendStepAtId(t) ==
    /\ pc[t] = "append"
    /\ entries' = IF local[t].entry.event_id <= Len(entries)
                  THEN [entries EXCEPT ![local[t].entry.event_id] =
                            local[t].entry]
                  ELSE Append(entries, local[t].entry)
    /\ Goto(t, "store_last", local[t])
    /\ UNCHANGED <<next_event_id, last_hash, verifierVars, aggVars, callerVars, ret,
                   tampers, merkleVars>>
AppendStepBeforeHash(t) ==
    /\ pc[t] = "append"
    /\ entries' = Append(entries, [local[t].entry EXCEPT !.hash = None])
    /\ Goto(t, "store_last", local[t])
    /\ UNCHANGED <<next_event_id, last_hash, verifierVars, aggVars, callerVars, ret,
                   tampers, merkleVars>>
AppendStep(t) ==
    /\ pc[t] = "append"
    /\ entries' = Append(entries, local[t].entry)
    /\ Goto(t, "store_last", local[t])
    /\ UNCHANGED <<next_event_id, last_hash, verifierVars, aggVars, callerVars, ret,
                   tampers, merkleVars>>

\* self._last_hash = entry_hash
StoreLast(t) ==
    /\ pc[t] = "store_last"
    /\ last_hash' = local[t].entry.hash
    /\ Goto(t, "load_inc", local[t])
    /\ UNCHANGED <<entries, next_event_id, verifierVars, aggVars, callerVars, ret, tampers,
                   merkleVars>>

\* self._next_event_id += 1: the read
LoadInc(t) ==
    /\ pc[t] = "load_inc"
    /\ Goto(t, "store_inc", [local[t] EXCEPT !.tmp = next_event_id])
    /\ UNCHANGED <<ledgerVars, verifierVars, aggVars, callerVars, ret, tampers, merkleVars>>

\* self._next_event_id += 1: the write; return entry
StoreInc(t) ==
    /\ pc[t] = "store_inc"
    /\ next_event_id' = local[t].tmp + 1
    /\ Goto(t, "idle", [local[t] EXCEPT !.calls = local[t].calls + 1])
    /\ ret' = [op |-> local[t].method, value |-> local[t].entry]
    /\ UNCHANGED <<entries, last_hash, verifierVars, aggVars, callerVars, tampers,
                   merkleVars>>

NextConc ==
    \/ \E t \in Threads : CallRecordEvent(t)
    \/ \E t \in Threads : CallRecordAuditEvent(t)
    \/ \E t \in Threads : TestLast(t)
    \/ \E t \in Threads : LoadLast(t)
    \/ \E t \in Threads : LoadId1(t)
    \/ \E t \in Threads : LoadId2(t)
    \/ \E t \in Threads : AppendStep(t)
    \/ \E t \in Threads : StoreLast(t)
    \/ \E t \in Threads : LoadInc(t)
    \/ \E t \in Threads : StoreInc(t)
    \/ AllReturned /\ VerifyChain

SpecConc == Init /\ [][NextConc]_vars

\* -------------------------------------- reads while one writer appends
\* the writer calls record_audit_event again and again
CallWriterAppend(t) ==
    /\ pc[t] = "idle"
    /\ local[t].calls < MaxEntries
    /\ \E event \in {e \in AuditEvent : /\ e.timestamp = 0
                                        /\ e.payload = [a |-> 1]} :
          Goto(t, "test_last",
               [local[t] EXCEPT !.method = "record_audit_event", !.ev = event])
    /\ UNCHANGED <<ledgerVars, verifierVars, aggVars, callerVars, ret,
                   tampers, merkleVars>>

\* verify_chain() called by the reader: prev_hash = self._genesis_hash
CallVerifyChain(t) ==
    /\ pc[t] = "idle"
    /\ Goto(t, "vc_next", [calls |-> 0, method |-> "verify_chain",
                           i |-> 1, prev |-> genesis_hash])
    /\ UNCHANGED <<ledgerVars, verifierVars, aggVars, callerVars, ret,
                   tampers, merkleVars>>

\* one round of "for entry in self.entries": the list is read at its
\* current length; return True at its end, False at a hash that differs
VerifyChainNext(t) ==
    /\ pc[t] = "vc_next"
    /\ IF local[t].i > Len(entries)
       THEN /\ ret' = [op |-> "verify_chain", arg |-> "none", value |-> TRUE]
            /\ Goto(t, "idle", IdleLocal)
       ELSE IF compute_hash(JsonDumpsContent(
                    ContentOf(entries[local[t].i], local[t].prev)), FALSE)
                 # entries[local[t].i].hash
            THEN /\ ret' = [op |-> "verify_chain", arg |-> "none",
                            value |-> FALSE]
                 /\ Goto(t, "idle", IdleLocal)
            ELSE /\ ret' = ret
                 /\ Goto(t, "vc_next",
                         [local[t] EXCEPT !.i = local[t].i + 1,
                                          !.prev = entries[local[t].i].hash])
    /\ UNCHANGED <<ledgerVars, verifierVars, aggVars, callerVars, tampers,
                   merkleVars>>

\* thread t1 writes, thread t2 reads
NextReadConc ==
    \/ CallWriterAppend("t1")
    \/ TestLast("t1")
    \/ LoadLast("t1")
    \/ LoadId1("t1")
    \/ LoadId2("t1")
    \/ AppendStep("t1")
    \/ StoreLast("t1")
    \/ LoadInc("t1")
    \/ StoreInc("t1")
    \/ CallVerifyChain("t2")
    \/ VerifyChainNext("t2")
    \/ pc["t2"] = "idle" /\ GetEventsBySession

SpecReadConc == Init /\ [][NextReadConc]_vars

\* ------------------------------ aggregation runs by threads that interleave
\* the positions of a thread between the selection of the ledger entries and
\* the append of its result to aggregation_history
AggRunning == {"agg_anchor", "agg_stamp", "agg_store"}

\* the AggregationResult the run of thread t builds from the events it selected
RunResult(t) ==
    AggregationResult("daily", local[t].start_date, local[t].start_date,
                      local[t].events, clock)

\* aggregate_daily(target_date) called
CallAggregateDaily(t) ==
    /\ pc[t] = "idle"
    /\ local[t].calls < MaxCallsPerThread
    /\ \E target_date \in 0..1 :
          Goto(t, "agg_select",
               [calls |-> local[t].calls, method |-> "aggregate_daily",
                start_date |-> target_date])
    /\ UNCHANGED <<ledgerVars, verifierVars, aggVars, callerVars, ret,
                   tampers, merkleVars>>

\* events = self._get_events_for_date(target_date)
AggSelect(t) ==
    /\ pc[t] = "agg_select"
    /\ Goto(t, "agg_anchor",
            [calls |-> local[t].calls, method |-> "aggregate_daily",
             start_date |-> local[t].start_date,
             events |-> get_events_in_range(entries, local[t].start_date,
                                            local[t].start_date),
             anchor_index |-> 0])
    /\ UNCHANGED <<ledgerVars, verifierVars, aggVars, callerVars, ret,
                   tampers, merkleVars>>

\* anchor = self.anchoring.create_daily_anchor(...): self.anchors.append
AggCreateAnchor(t) ==
    /\ pc[t] = "agg_anchor"
    /\ anchors' = Append(anchors,
                         NewAnchor(RunResult(t).merkle_root,
                                   local[t].start_date,
                                   {local[t].events[i].session_id :
                                        i \in 1..Len(local[t].events)},
                                   clock))
    /\ Goto(t, "agg_stamp",
            [local[t] EXCEPT !.anchor_index = Len(anchors) + 1])
    /\ UNCHANGED <<ledgerVars, verifierVars, aggregation_history,
                   last_aggregation, ledger_set, tsa_url, callerVars, ret,
                   tampers, merkleVars>>

\* self.anchoring.apply_timestamp_to_anchor(anchor)
AggStamp(t) ==
    /\ pc[t] = "agg_stamp"
    /\ anchors' = [anchors EXCEPT ![local[t].anchor_index] =
                       apply_timestamp_to_anchor(@, clock)]
    /\ Goto(t, "agg_store", local[t])
    /\ UNCHANGED <<ledgerVars, verifierVars, aggregation_history,
                   last_aggregation, ledger_set, tsa_url, callerVars, ret,
                   tampers, merkleVars>>

\* self.aggregation_history.append(result)
AggStore(t) ==
    /\ pc[t] = "agg_store"
    /\ aggregation_history' = Append(aggregation_history, RunResult(t))
    /\ Goto(t, "agg_last", local[t])
    /\ UNCHANGED <<ledgerVars, verifierVars, anchors, last_aggregation,
                   ledger_set, tsa_url, callerVars, ret, tampers, merkleVars>>

\* self._last_aggregation[period.value] = result.merkle_root; return result
AggReturn(t) ==
    /\ pc[t] = "agg_last"
    /\ last_aggregation' =
           [last_aggregation EXCEPT !.daily = RunResult(t).merkle_root]
    /\ ret' = [op |-> "aggregate", arg |-> "daily", value |-> RunResult(t)]
    /\ Goto(t, "idle", [IdleLocal EXCEPT !.calls = local[t].calls + 1,
                                         !.method = "aggregate_daily"])
    /\ UNCHANGED <<ledgerVars, verifierVars, anchors, aggregation_history,
                   ledger_set, tsa_url, callerVars, tampers, merkleVars>>

\* the append a caller makes while aggregation runs are under way
AppendDuringAggregation == RecordAuditEvent(AggEvents)

NextAggConc ==
    \/ Len(entries) < MaxOpsEntries /\ AppendDuringAggregation
    \/ \E t \in Threads : CallAggregateDaily(t)
    \/ \E t \in Threads : AggSelect(t)
    \/ \E t \in Threads : AggCreateAnchor(t)
    \/ \E t \in Threads : AggStamp(t)
    \/ \E t \in Threads : AggStore(t)
    \/ \E t \in Threads : AggReturn(t)

SpecAggConc == Init /\ [][NextAggConc]_vars

\* ------------------------------------------------- Merkle tree under test
Items == {<<"str", "a">>, <<"str", "b">>}
ItemLists == UNION {[1..n -> Items] : n \in 0..MaxItems}

InitMerkle ==
    /\ BaseInit /\ items \in ItemLists /\ held_event = NoneObject
    /\ tsa_url = None

\* tree = MerkleTree.build(items)
Build ==
    /\ mtree' = build(items)
    /\ mproof' = NoneObject
    /\ ret' = [op |-> "build", value |-> get_root_hash(mtree')]
    /\ UNCHANGED <<ledgerVars, verifierVars, aggVars, callerVars, tampers, threadVars,
                   items, asked_index>>

\* proof = tree.prove_inclusion(i)
ProveInclusion ==
    \E i \in -1..MaxItems :
        /\ mproof' = prove_inclusion(mtree, i)
        /\ asked_index' = i
        /\ ret' = [op |-> "prove_inclusion", arg |-> i]
        /\ UNCHANGED <<ledgerVars, verifierVars, aggVars, callerVars, tampers, threadVars,
                       items, mtree>>

\* MerkleTree.verify_proof(proof), for a proof that prove_inclusion returned
VerifyProof ==
    /\ "leaf_hash" \in DOMAIN mproof
    /\ mproof' = [mproof EXCEPT !.verified = verify_proof(mproof)]
    /\ ret' = [op |-> "verify_proof", value |-> verify_proof(mproof)]
    /\ UNCHANGED <<ledgerVars, verifierVars, aggVars, callerVars, tampers, threadVars,
                   items, mtree, asked_index>>

NextMerkle ==
    \/ Build
    \/ ProveInclusion
    \/ VerifyProof

SpecMerkle == InitMerkle /\ [][NextMerkle]_vars

\* ================================================================ claims
\* C1: after any sequence of appends made one after another (record_event
\* and record_audit_event in any mix) the first stored entry's prev_hash is
\* the genesis value and every later entry's prev_hash is the stored hash of
\* the entry immediately before it.
ChainLinked ==
    \A i \in 1..Len(entries) : entries[i].prev_hash = PredHash(entries, i)

WitnessChainLinked ==
    /\ Len(entries) >= 3
    /\ entries[1].prev_hash = genesis_hash
    /\ entries[3].prev_hash = entries[2].hash
    /\ \E i, j \in 1..3 : /\ entries[i].event_type \in Actions
                          /\ entries[j].event_type \in EventTypes

\* C2: after any sequence of appends, the hash recomputed from an entry's
\* stored fields and its stored prev_hash equals its stored hash.
HashRoundTrip ==
    \A i \in 1..Len(entries) : verify_entry_hash(entries[i])

WitnessHashRoundTrip ==
    /\ Len(entries) >= 2
    /\ entries[2].prev_hash # genesis_hash
    /\ verify_entry_hash(entries[1]) /\ verify_entry_hash(entries[2])

\* C3: N appends made one after another, by any mix of sessions and of the
\* two record methods, leave the i-th stored entry with sequence id i.
SequentialIds ==
    \A i \in 1..Len(entries) : entries[i].event_id = i

WitnessSequentialIds ==
    /\ Len(entries) >= 3
    /\ entries[3].event_id = 3
    /\ entries[1].session_id # entries[2].session_id
    /\ entries[1].event_type # entries[3].event_type

\* the ledger is what appends alone leave: every stored hash is the one
\* recomputed from the stored fields and the chain verifies
Intact(es) ==
    /\ verify_chain(es)
    /\ \A i \in 1..Len(es) : verify_entry_hash(es[i])

\* an intact ledger in which the payload of entry i alone was then changed
PayloadChanged(es, i) ==
    \E p \in Payloads \ {es[i].payload} : Intact([es EXCEPT ![i].payload = p])

\* C6 (as claimed): for any ledger contents, verify_chain() returns true
\* exactly when every stored hash equals its recomputation from the stored
\* fields and every stored prev_hash equals the predecessor's stored hash.
VerifyChainIffHashesAndLinks ==
    ret.op = "verify_chain" =>
        (ret.value <=>
            \A i \in 1..Len(entries) :
                /\ verify_entry_hash(entries[i])
                /\ entries[i].prev_hash = PredHash(entries, i))

\* C7: once the payload of one stored entry of an intact ledger is changed
\* to a different value and its hash is left alone, verify_chain() returns
\* false and detect_tampering for the entry's session returns tampered with
\* a hash-mismatch issue that names the entry's sequence id.
PayloadChangeDetected ==
    \A i \in 1..Len(entries) :
        PayloadChanged(entries, i) =>
            /\ ret.op = "verify_chain" => ~ret.value
            /\ (ret.op = "detect_tampering" /\ ret.arg = entries[i].session_id)
                   => /\ ret.value[1]
                      /\ \E k \in 1..Len(ret.value[2]) :
                            ret.value[2][k] = <<"Hash mismatch at event",
                                                entries[i].event_id>>

WitnessPayloadChangeDetected ==
    \E i \in 1..Len(entries) :
        /\ Len(entries) >= 2
        /\ PayloadChanged(entries, i)
        /\ ret.op = "detect_tampering" /\ ret.arg = entries[i].session_id
        /\ ret.value[1]
        /\ ~verify_chain(entries)

\* C8: the ledger is append-only: whatever operation runs, every stored
\* entry stays at its position with all its fields, and the list only grows
\* at its end.
AppendOnly ==
    [][/\ Len(entries') >= Len(entries)
       /\ \A i \in 1..Len(entries) : entries'[i] = entries[i]]_vars

WitnessAppendOnly ==
    /\ Len(entries) >= 2
    /\ Len(verification_history) >= 1
    /\ Len(aggregation_history) >= 1
    /\ aggregation_history[1].event_count >= 1
    /\ ret.op = "verify_anchor"

\* C4 (as claimed): when several threads append concurrently, once all
\* calls have returned the stored entries carry the sequence ids 1..N for the
\* N appends made: none assigned twice, none skipped.
ConcurrentIdsGapFree ==
    AllReturned =>
        {entries[i].event_id : i \in 1..Len(entries)} = 1..Len(entries)

\* C5 (as claimed): when several threads append concurrently no two appends
\* capture the same prev_hash, and once all calls have returned
\* verify_chain() returns true.
ConcurrentChainVerifies ==
    /\ \A i, j \in 1..Len(entries) :
           i # j => entries[i].prev_hash # entries[j].prev_hash
    /\ (AllReturned /\ ret.op = "verify_chain") => ret.value

\* the reference construction of the root: level 0 has one node per item,
\* level l has ceil(size of level l - 1 / 2) nodes, node i of level l (from 0)
\* is H([left, right]) of nodes 2i and 2i + 1 of the level below, node 2i
\* standing in for a missing 2i + 1
RECURSIVE RefSize(_, _)
RefSize(K, l) == IF l = 0 THEN K ELSE (RefSize(K, l - 1) + 1) \div 2

RECURSIVE RefNode(_, _, _)
RefNode(its, l, i) ==
    IF l = 0 THEN sha256(its[i + 1])
    ELSE LET right == IF 2 * i + 1 < RefSize(Len(its), l - 1) THEN 2 * i + 1
                      ELSE 2 * i
         IN  sha256(<<"list", RefNode(its, l - 1, 2 * i),
                      RefNode(its, l - 1, right)>>)

RefHeight(K) == CHOOSE l \in 0..K : RefSize(K, l) = 1 /\
                                    \A m \in 0..(l - 1) : RefSize(K, m) > 1

\* the tree was built from a non-empty item list
Built == mtree.root # None

\* C9: for every non-empty item list of length K and every leaf index i in
\* 0..K-1, prove_inclusion(i) returns a proof whose leaf_hash is H(item i) and
\* whose root_hash is the tree's root, and verify_proof of it returns true.
ProofsVerify ==
    (Built /\ asked_index \in 0..(Len(items) - 1)) =>
        /\ ret.op = "prove_inclusion" =>
              /\ "leaf_hash" \in DOMAIN mproof
              /\ mproof.leaf_hash = sha256(items[asked_index + 1])
              /\ mproof.root_hash = get_root_hash(mtree)
        /\ ret.op = "verify_proof" => ret.value /\ mproof.verified

WitnessProofsVerify ==
    /\ Built
    /\ Len(items) = 5
    /\ asked_index = 4
    /\ ret.op = "verify_proof"
    /\ mproof.verified

\* C10: for every item list of length K >= 1 build yields the root of the
\* reference construction: leaves H(item) in input order, parents
\* H([left, right]) with the left child first, the last node of an odd level
\* paired with itself, levels of sizes K, ceil(K/2), ..., 1.
BuildMatchesReference ==
    Built =>
        LET K == Len(items)
            h == RefHeight(K)
        IN  /\ mtree.root = RefNode(items, h, 0)
            /\ Len(mtree.levels) = h + 1
            /\ \A l \in 0..h :
                  /\ Len(mtree.levels[l + 1]) = RefSize(K, l)
                  /\ \A i \in 0..(RefSize(K, l) - 1) :
                        mtree.levels[l + 1][i + 1] = RefNode(items, l, i)
            /\ \A i \in 1..K : mtree.leaves[i] = sha256(items[i])
            /\ \A l \in 1..h : \A i \in 1..(Len(mtree.levels[l]) - 1) :
                  mtree.levels[l][i] # mtree.levels[l][i + 1] =>
                      hash_pair(mtree.levels[l][i], mtree.levels[l][i + 1])
                          # hash_pair(mtree.levels[l][i + 1],
                                      mtree.levels[l][i])

WitnessBuildMatchesReference ==
    /\ Built
    /\ Len(items) = 5
    /\ items[1] # items[2]
    /\ Len(mtree.levels) = 4
    /\ ret.op = "build"

\* C11 (as claimed): the root hash of an empty Merkle tree (build of zero
\* items) is the same constant as the ledger's genesis value, the 64-character
\* all-zero hex string.
EmptyRootIsGenesis ==
    (ret.op = "build" /\ items = <<>>) => ret.value = genesis_hash

\* C11 (amended): the root hash of an empty Merkle tree is the fixed constant
\* MerkleTree._empty_hash, the SHA-256 digest of the bytes "empty"; it is
\* never None and it is not the ledger's all-zero genesis value.
EmptyRootIsEmptyHash ==
    (ret.op = "build" /\ items = <<>>) =>
        /\ ret.value = sha256(<<"str", "empty">>)
        /\ ret.value # None
        /\ ret.value # genesis_hash

WitnessEmptyRootIsEmptyHash ==
    /\ ret.op = "build"
    /\ items = <<>>
    /\ mtree.root = None
    /\ mtree.leaves = <<>>

\* C12: aggregate_daily for a date with no ledger entry inside its
\* boundaries, an empty or unset ledger included, returns a result with
\* event_count 0 and anchored true whose merkle_root is the fixed, never-None
\* root that get_root_hash returns for an empty item list, on every call; the
\* anchor it stores carries the same root.
EmptyDayAggregation ==
    (/\ ret.op = "aggregate" /\ ret.arg = "daily"
     /\ \/ ~ledger_set
        \/ \A i \in 1..Len(entries) :
              entries[i].timestamp \div SecondsPerDay # ret.value.start_date)
    => /\ ret.value.event_count = 0
       /\ ret.value.anchored
       /\ ret.value.merkle_root = get_root_hash(build(<<>>))
       /\ ret.value.merkle_root = sha256(<<"str", "empty">>)
       /\ ret.value.merkle_root # None
       /\ anchors[Len(anchors)].merkle_root = ret.value.merkle_root

WitnessEmptyDayAggregation ==
    /\ ret.op = "aggregate" /\ ret.arg = "daily"
    /\ ledger_set
    /\ Len(entries) >= 1
    /\ \A i \in 1..Len(entries) :
          entries[i].timestamp \div SecondsPerDay # ret.value.start_date
    /\ ret.value.event_count = 0
    /\ Len(aggregation_history) = 2
    /\ aggregation_history[1].period = "daily"
    /\ aggregation_history[1].merkle_root = ret.value.merkle_root

\* C14: an aggregation run right after a run of the same kind and period,
\* with no ledger change between the two, returns the same merkle_root, event
\* count and session count as the first; each run adds its result to the
\* history and its anchor to the anchors, after the ones already there.
RepeatedAggregationAgrees ==
    [][(/\ ret.op = "aggregate" /\ ret'.op = "aggregate"
        /\ <<anchors, aggregation_history>>' # <<anchors, aggregation_history>>
        /\ ret'.arg = ret.arg
        /\ ret'.value.start_date = ret.value.start_date
        /\ ret'.value.end_date = ret.value.end_date)
       => /\ ret'.value.merkle_root = ret.value.merkle_root
          /\ ret'.value.event_count = ret.value.event_count
          /\ ret'.value.session_count = ret.value.session_count
          /\ aggregation_history' = Append(aggregation_history, ret'.value)
          /\ anchors' = Append(anchors, ret'.value.anchor)
          /\ aggregation_history[Len(aggregation_history)].merkle_root
                 = ret'.value.merkle_root]_vars

WitnessRepeatedAggregationAgrees ==
    /\ Len(aggregation_history) = 2
    /\ Len(anchors) = 2
    /\ aggregation_history[1].period = aggregation_history[2].period
    /\ aggregation_history[1].start_date = aggregation_history[2].start_date
    /\ aggregation_history[1].merkle_root = aggregation_history[2].merkle_root
    /\ aggregation_history[1].event_count = 2
    /\ aggregation_history[2].event_count = 2

\* C13: two anchors created with the same (merkle_root, date), at any times
\* and with any session lists, carry the same anchor_hash;
\* verify_anchored_root(merkle_root, date) holds after each creation, and it
\* returns false for a pair that no stored anchor matches in both root and
\* date.
AnchorHashDeterministic ==
    /\ \A i, j \in 1..Len(anchors) :
          (anchors[i].merkle_root = anchors[j].merkle_root
              /\ anchors[i].date = anchors[j].date)
          => anchors[i].anchor_hash = anchors[j].anchor_hash
    /\ ret.op = "create_daily_anchor" =>
          /\ verify_anchored_root(anchors, ret.arg[1], ret.arg[2])
          /\ \A i \in 1..Len(anchors) :
                verify_anchored_root(anchors, anchors[i].merkle_root,
                                     anchors[i].date)
    /\ ret.op = "verify_anchored_root" =>
          (ret.value <=> \E i \in 1..Len(anchors) :
                             /\ anchors[i].merkle_root = ret.arg[1]
                             /\ anchors[i].date = ret.arg[2])

WitnessAnchorHashDeterministic ==
    /\ Len(anchors) = 2
    /\ anchors[1].merkle_root = anchors[2].merkle_root
    /\ anchors[1].date = anchors[2].date
    /\ anchors[1].timestamp # anchors[2].timestamp
    /\ anchors[1].session_ids # anchors[2].session_ids
    /\ anchors[1].anchor_hash = anchors[2].anchor_hash
    /\ ret.op = "verify_anchored_root"
    /\ ret.arg[1] = anchors[1].merkle_root
    /\ ret.arg[2] # anchors[1].date
    /\ ~ret.value

\* C18 (as claimed): once apply_timestamp_to_anchor has set the token and the
\* human-readable time of an anchor, a later apply_timestamp_to_anchor on the
\* same anchor leaves both unchanged, and no other field of an anchor changes
\* after its creation.
TimestampAttachedOnce ==
    [][\A i \in 1..Len(anchors) :
          /\ Len(anchors') >= Len(anchors)
          /\ anchors'[i].merkle_root = anchors[i].merkle_root
          /\ anchors'[i].date = anchors[i].date
          /\ anchors'[i].timestamp = anchors[i].timestamp
          /\ anchors'[i].session_count = anchors[i].session_count
          /\ anchors'[i].session_ids = anchors[i].session_ids
          /\ anchors'[i].anchor_hash = anchors[i].anchor_hash
          /\ anchors[i].timestamped_at # None =>
                /\ anchors'[i].timestamped_at = anchors[i].timestamped_at
                /\ anchors'[i].tsa_response = anchors[i].tsa_response]_vars

\* C15 (as claimed): an event whose payload lacks a key its kind requires is
\* rejected before append, so every stored entry of a kind that has a schema
\* carries all the keys the schema requires.
StoredEntriesHaveRequiredKeys ==
    \A i \in 1..Len(entries) :
        entries[i].event_type \in DOMAIN PAYLOAD_SCHEMAS =>
            \A j \in 1..Len(PAYLOAD_SCHEMAS[entries[i].event_type].required) :
                PAYLOAD_SCHEMAS[entries[i].event_type].required[j]
                    \in DOMAIN entries[i].payload

\* C16: validate_payload returns false exactly when a key the event's kind
\* requires is missing from the payload, whatever other keys the payload has,
\* and the call changes neither the event nor the ledger.
ValidateIffRequiredPresent ==
    [][(ret'.op = "validate_payload" /\ ret' # ret) =>
          /\ ret'.arg = held_event
          /\ ret'.value = FALSE <=>
                \E k \in {PAYLOAD_SCHEMAS[held_event.event_type].required[j] :
                             j \in 1..Len(PAYLOAD_SCHEMAS[
                                 held_event.event_type].required)} :
                    k \notin DOMAIN held_event.payload
          /\ held_event' = held_event
          /\ UNCHANGED ledgerVars]_vars

WitnessValidateIffRequiredPresent ==
    /\ ret.op = "validate_payload"
    /\ ret.value = TRUE
    /\ ret.arg = held_event
    /\ ret.arg.event_type = "session_end"
    /\ DOMAIN ret.arg.payload = {"item_id", "reason", "response"}
    /\ Len(entries) >= 1

\* C17: an append whose serialization fails raises and leaves the ledger as
\* it was (no entry, same next id, same last hash); an append that succeeds,
\* after a failure or not, takes the id following the last entry's and links
\* to the last entry's hash.
FailedAppendLeavesLedger ==
    [][(ret'.op \in {"record_event", "record_audit_event"} /\ ret' # ret) =>
          IF "raised" \in DOMAIN ret'
          THEN UNCHANGED ledgerVars
          ELSE /\ entries' = Append(entries, ret'.value)
               /\ ret'.value.event_id = next_event_id
               /\ ret'.value.event_id =
                     IF entries = <<>> THEN 1
                     ELSE entries[Len(entries)].event_id + 1
               /\ ret'.value.prev_hash =
                     IF entries = <<>> THEN genesis_hash
                     ELSE entries[Len(entries)].hash
               /\ next_event_id' = next_event_id + 1
               /\ last_hash' = ret'.value.hash]_vars

WitnessFailedAppendLeavesLedger ==
    /\ ret.op = "record_audit_event"
    /\ "raised" \in DOMAIN ret
    /\ ~JsonSerializable(ret.arg.payload)
    /\ Len(entries) = 1
    /\ next_event_id = 2
    /\ last_hash = entries[1].hash

\* C19 (as claimed): on a ledger nobody altered, whose sessions interleave,
\* detect_tampering(s) returns (false, []) for every session s.
UntamperedDetectsNothing ==
    ret.op = "detect_tampering" =>
        /\ ret.value[1] = FALSE
        /\ ret.value[2] = <<>>

\* C20: for any ledger contents and any session s with at least one entry,
\* verify_session(s).invalid_entries lists, in ledger order, exactly the
\* entries of s whose stored hash differs from the hash recomputed over their
\* stored fields with prev_hash set to the stored hash of the entry just
\* before them in the whole ledger (genesis for the first), and is_valid holds
\* exactly when that list is empty.
SessionInvalidEntriesExact ==
    [][(ret'.op = "verify_session"
            /\ verification_history' # verification_history) =>
          LET positions == [i \in 1..Len(entries) |-> i]
              bad == SelectSeq(positions, LAMBDA i :
                        /\ entries[i].session_id = ret'.arg
                        /\ sha256(JsonDumpsContent(
                               ContentOf(entries[i], PredHash(entries, i))))
                              # entries[i].hash)
          IN  /\ ret'.value.invalid_entries =
                    [k \in 1..Len(bad) |->
                        [event_id |-> entries[bad[k]].event_id,
                         timestamp |-> entries[bad[k]].timestamp,
                         hash |-> entries[bad[k]].hash,
                         prev_hash |-> entries[bad[k]].prev_hash]]
              /\ ret'.value.is_valid <=> Len(bad) = 0
              /\ verification_history' =
                    Append(verification_history, ret'.value)
              /\ UNCHANGED ledgerVars]_vars

WitnessSessionInvalidEntriesExact ==
    /\ Len(entries) = 2
    /\ entries[1].session_id # entries[2].session_id
    /\ tampers > 0
    /\ ret.op = "verify_session"
    /\ ret.arg = entries[2].session_id
    /\ Len(ret.value.invalid_entries) = 1
    /\ ret.value.invalid_entries[1].event_id = entries[2].event_id
    /\ ~ret.value.is_valid
    /\ Len(verification_history) = 1

\* C21: verify_anchor(period_key) returns verified = true exactly when an
\* anchor is stored for that key and the stored anchor_hash of the anchor
\* looked up (the earliest stored for the key) equals the hash recomputed
\* from its stored merkle_root and date; with no anchor stored for the key it
\* returns verified = false with an error entry instead of raising.
VerifyAnchorIffHashMatches ==
    [][(ret'.op = "verify_anchor" /\ ret' # ret) =>
          LET stored == {i \in 1..Len(anchors) : anchors[i].date = ret'.arg}
          IN  IF stored = {}
              THEN /\ ret'.value.verified = FALSE
                   /\ "error" \in DOMAIN ret'.value
              ELSE LET first == CHOOSE i \in stored : \A j \in stored : i <= j
                   IN  /\ ret'.value.verified <=>
                             anchors[first].anchor_hash =
                                 sha256(<<"dict",
                                          <<"date", anchors[first].date>>,
                                          <<"merkle_root",
                                            anchors[first].merkle_root>>>>)
                       /\ "error" \notin DOMAIN ret'.value]_vars

WitnessVerifyAnchorIffHashMatches ==
    /\ ret.op = "verify_anchor"
    /\ ret.value.verified = FALSE
    /\ "error" \notin DOMAIN ret.value
    /\ \E i \in 1..Len(anchors) :
          /\ anchors[i].date = ret.arg
          /\ anchors[i].anchor_hash = sha256(<<"str", "forged">>)
    /\ tampers = 1

\* C22: what verify_anchor(period_key) returns does not depend on the
\* ledger: a step that appends an entry or alters a stored entry leaves the
\* verified flag and the merkle_root verify_anchor reports for every key as
\* they were, and verify_anchor changes neither the ledger nor the anchors.
VerifyAnchorIgnoresLedger ==
    [][/\ entries' # entries =>
            \A target_date \in 0..MaxDay :
                verify_anchor(anchors, target_date)' =
                    verify_anchor(anchors, target_date)
       /\ (ret'.op = "verify_anchor" /\ ret' # ret) =>
            /\ ret'.value = verify_anchor(anchors, ret'.arg)
            /\ UNCHANGED <<ledgerVars, aggVars>>]_vars

WitnessVerifyAnchorIgnoresLedger ==
    /\ ret.op = "verify_anchor"
    /\ ret.value.verified = TRUE
    /\ Len(aggregation_history) = 1
    /\ aggregation_history[1].start_date = ret.arg
    /\ aggregation_history[1].event_count = 0
    /\ ret.value.merkle_root = empty_hash
    /\ \E i \in 1..Len(entries) :
          entries[i].timestamp \div SecondsPerDay = ret.arg
    /\ tampers = 0

\* C23 (as claimed): without a timestamp authority configured, an aggregation
\* is never reported in the same way (same timestamped flag and same token
\* tag) as an aggregation of the same root by an instance that has an
\* authority configured.
LocalTimestampMarked ==
    (ret.op = "aggregate" /\ tsa_url = None) =>
        \A url \in TsaUrls \ {None} :
            <<ret.value.timestamped, ret.value.anchor.tsa_response.tsa>> #
                <<TRUE, TimestampResponse(url, ret.value.merkle_root,
                                          clock).tsa>>

\* C24 (as claimed): the aggregation of one period never runs twice at the
\* same time: at most one run for a period is between selecting the ledger
\* entries and appending its result to the history.
AggregationRunsExcluded ==
    \A t1, t2 \in Threads :
        (t1 # t2 /\ pc[t1] \in AggRunning /\ pc[t2] \in AggRunning) =>
            local[t1].start_date # local[t2].start_date

\* C25: anchoring never blocks the ledger: in every reachable state, also
\* while an aggregation run is under way and while an anchor has no
\* timestamp, an append is enabled, and the entry it stores (id, prev_hash,
\* hash) is the one computed from the event, the next id and the last hash
\* alone, whatever the anchors are.
AnchoringNeverBlocksAppend ==
    /\ [](Len(entries) < MaxOpsEntries => ENABLED AppendDuringAggregation)
    /\ [][(ret'.op = "record_audit_event" /\ ret' # ret) =>
            \E event \in AggEvents :
                LET prev == IF last_hash # None THEN last_hash
                            ELSE genesis_hash
                    content == [event_id |-> next_event_id,
                                timestamp |-> event.timestamp,
                                session_id |-> event.session_id,
                                candidate_id |-> event.candidate_id,
                                actor |-> event.actor,
                                event_type |-> event.event_type,
                                action |-> event.event_type,
                                payload |-> event.payload,
                                metadata |-> event.metadata,
                                prev_hash |-> prev]
                IN  /\ entries' = Append(entries, ret'.value)
                    /\ ret'.value.event_id = next_event_id
                    /\ ret'.value.prev_hash = prev
                    /\ ret'.value.hash = sha256(JsonDumpsContent(content))
                    /\ UNCHANGED <<anchors, aggregation_history,
                                   last_aggregation>>]_vars

WitnessAnchoringNeverBlocksAppend ==
    /\ ret.op = "record_audit_event"
    /\ Len(entries) = 2
    /\ entries[2] = ret.value
    /\ \E t \in Threads : pc[t] = "agg_stamp"
    /\ \E i \in 1..Len(anchors) : anchors[i].timestamped_at = None
    /\ \E t \in Threads : pc[t] = "agg_store"

\* C26: get_events_by_session, get_events_by_candidate and get_events_by_type
\* return exactly the stored entries matching the key, in append order
\* (increasing id), the empty list for a key no entry matches, and leave
\* entries, next id and last hash unchanged.
QueriesReturnMatchesInOrder ==
    [][(ret'.op \in {"get_events_by_session", "get_events_by_candidate",
                     "get_events_by_type"} /\ ret' # ret) =>
          LET matches ==
                  {i \in 1..Len(entries) :
                      \/ /\ ret'.op = "get_events_by_session"
                         /\ entries[i].session_id = ret'.arg
                      \/ /\ ret'.op = "get_events_by_candidate"
                         /\ entries[i].candidate_id = ret'.arg
                      \/ /\ ret'.op = "get_events_by_type"
                         /\ entries[i].event_type = ret'.arg}
          IN  /\ Len(ret'.value) = Cardinality(matches)
              /\ \A k \in 1..Len(ret'.value) :
                    \E i \in matches : ret'.value[k] = entries[i]
              /\ \A k \in 1..(Len(ret'.value) - 1) :
                    ret'.value[k].event_id < ret'.value[k + 1].event_id
              /\ matches = {} => ret'.value = <<>>
              /\ UNCHANGED ledgerVars]_vars

WitnessQueriesReturnMatchesInOrder ==
    /\ ret.op = "get_events_by_session"
    /\ Len(entries) = 2
    /\ entries[1].session_id # entries[2].session_id
    /\ ret.arg = entries[2].session_id
    /\ ret.value = <<entries[2]>>

\* C28: export_for_attestation(session) emits event_count = the number of
\* the session's entries, those entries in append order with their stored
\* prev_hash (the hash of the entry before them in the whole ledger) and
\* hash, genesis_hash = the genesis constant, final_hash = the hash of the
\* session's last entry and the timestamps of its first and last entry; for
\* a session without entries event_count 0, null timestamps and final_hash =
\* genesis; the ledger is unchanged.
AttestationExportFaithful ==
    [][(ret'.op = "export_for_attestation" /\ ret' # ret) =>
          LET idx == SelectSeq([i \in 1..Len(entries) |-> i],
                               LAMBDA i : entries[i].session_id = ret'.arg)
              n == Len(idx)
              doc == ret'.value
          IN  /\ doc.event_count = n
              /\ Len(doc.events) = n
              /\ \A k \in 1..n :
                    /\ doc.events[k][5][2] = entries[idx[k]].event_id
                    /\ doc.events[k][7][2] = entries[idx[k]].hash
                    /\ doc.events[k][10][2] = entries[idx[k]].prev_hash
                    /\ doc.events[k][10][2] =
                          IF idx[k] = 1 THEN doc.genesis_hash
                          ELSE entries[idx[k] - 1].hash
              /\ doc.genesis_hash =
                    <<"0000000000000000000000000000000000000000000000000000000000000000">>
              /\ IF n > 0
                 THEN /\ doc.final_hash = entries[idx[n]].hash
                      /\ doc.first_event_timestamp = entries[idx[1]].timestamp
                      /\ doc.last_event_timestamp = entries[idx[n]].timestamp
                 ELSE /\ doc.final_hash = doc.genesis_hash
                      /\ doc.first_event_timestamp = None
                      /\ doc.last_event_timestamp = None
              /\ UNCHANGED ledgerVars]_vars

WitnessAttestationExportFaithful ==
    /\ ret.op = "export_for_attestation"
    /\ Len(entries) = 2
    /\ entries[1].session_id # ret.arg
    /\ entries[2].session_id = ret.arg
    /\ ret.value.event_count = 1
    /\ ret.value.events[1][10][2] = entries[1].hash
    /\ ret.value.final_hash = entries[2].hash

\* C27 (as claimed): no object a caller obtains lets it change a stored
\* entry: after an append, changing the payload of the event object that was
\* passed in leaves every stored entry as it was, and verify_chain() still
\* holds.
CallerCannotChangeStoredEntry ==
    [][(ret'.op = "mutate_payload" /\ ret' # ret) =>
          /\ entries' = entries
          /\ verify_chain(entries) => verify_chain(entries')]_vars

\* C29: a read that runs while one writer appends sees a consistent ledger:
\* verify_chain(), interleaved at any point with appends, never returns
\* false, and a query returns only entries that are fully built (their hash
\* is the hash of their content with their prev_hash) and whose predecessor
\* is stored (their prev_hash is genesis or the hash of the entry stored
\* just before them).
ReadsSeeConsistentLedger ==
    /\ ret.op = "verify_chain" => ret.value
    /\ ret.op = "get_events_by_session" =>
          \A k \in 1..Len(ret.value) :
              /\ ret.value[k].hash =
                    sha256(JsonDumpsContent(
                        ContentOf(ret.value[k], ret.value[k].prev_hash)))
              /\ \E i \in 1..Len(entries) :
                    /\ entries[i] = ret.value[k]
                    /\ entries[i].prev_hash =
                          IF i = 1 THEN genesis_hash ELSE entries[i - 1].hash

WitnessReadsSeeConsistentLedger ==
    /\ ret.op = "verify_chain"
    /\ ret.value
    /\ pc["t1"] = "store_last"
    /\ Len(entries) = 2
    /\ last_hash = entries[1].hash
    /\ pc["t2"] = "idle"

\* C30: with several threads appending concurrently no append is lost or
\* stored twice: at every moment the number of stored entries is the number
\* of calls that have passed their append, so once all calls have returned
\* it is the number of calls made, and the entry each call returns is one of
\* the stored entries.
NoAppendLost ==
    /\ Len(entries) =
          Cardinality({<<t, k>> \in Threads \X (1..(MaxCallsPerThread + 1)) :
                          \/ k <= local[t].calls
                          \/ /\ k = local[t].calls + 1
                             /\ pc[t] \in {"store_last", "load_inc",
                                            "store_inc"}})
    /\ AllReturned =>
          Len(entries) = Cardinality({<<t, k>> \in Threads \X
                                          (1..MaxCallsPerThread) :
                                          k <= local[t].calls})
    /\ ret.op \in {"record_event", "record_audit_event"} =>
          \E i \in 1..Len(entries) : entries[i] = ret.value

WitnessNoAppendLost ==
    /\ AllReturned
    /\ \A t \in Threads : local[t].calls = MaxCallsPerThread
    /\ Len(entries) = 2 * MaxCallsPerThread
    /\ \E i, j \in 1..Len(entries) :
          i # j /\ entries[i].event_id = entries[j].event_id

\* ------------------------------------------------------------------ C31
\* the fields in which two anchor records differ
ChangedFields(before, after) ==
    {f \in {"merkle_root", "date", "session_ids", "session_count"} :
        before[f] # after[f]}
    \cup (IF before.timestamp # after.timestamp THEN {"timestamp"} ELSE {})
    \cup (IF before.timestamped_at # after.timestamped_at
          THEN {"timestamped_at"} ELSE {})
    \cup (IF before.tsa_response # after.tsa_response
          THEN {"tsa_response"} ELSE {})
    \cup (IF before.anchor_hash # after.anchor_hash
          THEN {"anchor_hash"} ELSE {})

\* C31 as stated: whenever a field of the stored anchor that is looked up
\* for its period is changed, and no anchor was altered before, verify_anchor
\* for that period returns verified = false afterwards.
AnyAnchorChangeDetected ==
    [][\A i \in 1..Len(anchors) :
          (/\ tampers = 0
           /\ Len(anchors') = Len(anchors)
           /\ anchors'[i] # anchors[i]
           /\ get_anchor_by_date(anchors, anchors[i].date) = anchors[i])
          => ~verify_anchor(anchors', anchors[i].date).verified]_vars

\* C31 amended: verify_anchor covers the two hashed fields only.  Changing
\* the merkle_root or the date of a stored anchor whose anchor_hash matched
\* makes the record fail verify_anchor_integrity, and verify_anchor for the
\* date it now carries reports verified = false when it is the anchor looked
\* up; changing its session list, session count, creation time or timestamp
\* token leaves the verified flag of verify_anchor for every date as it was.
VerifyAnchorCoversRootAndDate ==
    [][\A i \in 1..Len(anchors) :
          (Len(anchors') = Len(anchors) /\ anchors'[i] # anchors[i])
          => LET before == anchors[i]
                 after == anchors'[i]
                 changed == ChangedFields(before, after)
             IN  /\ (/\ changed # {}
                     /\ changed \subseteq {"merkle_root", "date"}
                     /\ verify_anchor_integrity(before))
                    => /\ ~verify_anchor_integrity(after)
                       /\ get_anchor_by_date(anchors', after.date) = after
                          => ~verify_anchor(anchors', after.date).verified
                 /\ (changed \cap {"merkle_root", "date", "anchor_hash"} = {})
                    => \A d \in 0..MaxDay :
                          verify_anchor(anchors', d).verified
                              = verify_anchor(anchors, d).verified]_vars

\* verify_anchor returned verified = true for an anchor whose session count
\* and timestamp were altered
WitnessVerifyAnchorCoversRootAndDate ==
    /\ ret.op = "verify_anchor"
    /\ ret.value.verified
    /\ \E i \in 1..Len(anchors) :
          /\ get_anchor_by_date(anchors, ret.arg) = anchors[i]
          /\ anchors[i].session_count # Cardinality(anchors[i].session_ids)
          /\ anchors[i].timestamped_at = isoformat(0)

\* ------------------------------------------------------------------ C32
\* the positions of the entries whose timestamp lies from the first second
\* of start_date to the last second of end_date
InPeriod(es, start_date, end_date) ==
    {i \in 1..Len(es) :
        /\ es[i].timestamp \div SecondsPerDay >= start_date
        /\ es[i].timestamp \div SecondsPerDay <= end_date}

\* the k-th smallest member of a set of positions
Nth(positions, k) ==
    CHOOSE i \in positions : Cardinality({j \in positions : j <= i}) = k

\* C32: the result of every aggregate_daily/weekly/monthly run carries the
\* root of the Merkle tree built over exactly the ledger entries whose
\* timestamp lies within the period (first second of start_date to last
\* second of end_date, both included), one leaf per entry in append order;
\* event_count is the number of those entries, session_count the number of
\* their distinct session ids, and the anchor stored carries the same root
\* and sessions.
AggregationCoversPeriod ==
    [][(ret'.op = "aggregate"
        /\ Len(aggregation_history') = Len(aggregation_history) + 1)
       => LET result == ret'.value
              inside == InPeriod(entries, result.start_date, result.end_date)
              leaves == [k \in 1..Cardinality(inside) |->
                            hash_data(JsonDumpsEntry(entries[Nth(inside, k)]))]
              sessions == {entries[i].session_id : i \in inside}
          IN  /\ result.event_count = Cardinality(inside)
              /\ result.session_count = Cardinality(sessions)
              /\ result.merkle_root =
                     (IF inside = {} THEN empty_hash
                      ELSE BuildLevels(leaves)[Len(BuildLevels(leaves))][1])
              /\ anchors'[Len(anchors')].merkle_root = result.merkle_root
              /\ anchors'[Len(anchors')].session_ids = sessions
              /\ aggregation_history'[Len(aggregation_history')] = result]_vars

\* a daily run for day 0 on a ledger that holds an entry of the last second
\* of day 0 after an entry of the first second of day 1: one leaf
WitnessAggregationCoversPeriod ==
    /\ ret.op = "aggregate" /\ ret.arg = "daily"
    /\ ret.value.start_date = 0
    /\ Len(entries) = 2
    /\ entries[1].timestamp = SecondsPerDay
    /\ entries[2].timestamp = SecondsPerDay - 1
    /\ ret.value.event_count = 1
    /\ ret.value.merkle_root = hash_data(JsonDumpsEntry(entries[2]))

\* ------------------------------------------------------------------ C33
\* C33: prove_inclusion(leaf_index) on a tree of K leaves returns a proof
\* if and only if 0 <= leaf_index < K, and returns None for every other
\* index: an index >= K, a negative index, any index on an empty tree.
ProveInclusionIffInRange ==
    ret.op = "prove_inclusion"
    => IF 0 <= asked_index /\ asked_index < Len(mtree.leaves)
       THEN "leaf_hash" \in DOMAIN mproof
       ELSE mproof = NoneObject

\* ------------------------------------------------------------------ C34
\* C34: aggregate_weekly called with no argument aggregates the previous
\* calendar week, the Monday-to-Sunday range that contains the date seven
\* days before today, for every value of today: the range starts on that
\* Monday and ends six days later.
DefaultWeekIsPreviousWeek ==
    (ret.op = "aggregate" /\ ret.arg = "weekly")
    => LET target_date == clock \div SecondsPerDay - 7
           monday == target_date - weekday(target_date)
       IN  /\ ret.value.start_date = monday
           /\ ret.value.end_date = monday + 6
           /\ weekday(ret.value.start_date) = 0

\* ------------------------------------------------------------------ C35
\* C35: create_event keeps an explicitly supplied timestamp: for every
\* supplied value t, 0 (the epoch) included, the created event's timestamp
\* is t, and the current time is used only when no timestamp is supplied;
\* the call leaves the ledger as it was.
CreateEventKeepsTimestamp ==
    [][(ret'.op = "create_event" /\ ret' # ret)
       => /\ ret'.value.timestamp =
                 (IF ret'.arg = None THEN clock ELSE ret'.arg[2])
          /\ UNCHANGED ledgerVars]_vars

\* ------------------------------------------------------------------ C36
\* the longer list is the shorter one followed by copies of its last item
RepeatsLastItem(shorter, longer) ==
    /\ 0 < Len(shorter) /\ Len(shorter) < Len(longer)
    /\ \A i \in 1..Len(longer) :
          longer[i] = shorter[IF i <= Len(shorter) THEN i ELSE Len(shorter)]

EveryRemovalDetected ==
    [][(Len(entries') < Len(entries) /\ verify_chain(entries))
       => ~verify_chain(entries')]_vars

\* C37 amended: removing stored entries from a ledger that verifies makes
\* verify_chain() return false exactly when an entry that is kept came after
\* a removed one (removal from the front or the middle); when only entries
\* at the tail are removed, all of them included, verify_chain() still
\* returns true.
RemovalBeforeKeptEntryDetected ==
    [][(Len(entries') < Len(entries) /\ verify_chain(entries))
       => (verify_chain(entries')
              <=> entries' = SubSeq(entries, 1, Len(entries')))]_vars

\* verify_chain returned true on a ledger whose third entry was deleted, and
\* would return false had the first or the second been deleted instead
WitnessRemovalBeforeKeptEntryDetected ==
    /\ ret.op = "verify_chain" /\ ret.value
    /\ tampers = 1
    /\ Len(entries) = 2 /\ next_event_id = 4
    /\ ~verify_chain(SubSeq(entries, 2, 2))
    /\ entries[2].prev_hash = entries[1].hash
    /\ last_hash # entries[2].hash

\* ------------------------------------------------------------------ C38
\* C38: the anchor looked up for a period key D (get_anchor_for_date(D),
\* verify_anchor(D)) is the one created by the most recent daily aggregation
\* of D, never the anchor of an earlier run nor the anchor of a weekly or
\* monthly aggregation whose period starts on D.
LookupIsLatestDailyAnchor ==
    \A k \in 1..Len(anchors) :
        LET D == anchors[k].date
            anchor == get_anchor_by_date(anchors, D)
        IN  \E i \in 1..Len(aggregation_history) :
                /\ aggregation_history[i].period = "daily"
                /\ aggregation_history[i].start_date = D
                /\ \A j \in (i + 1)..Len(aggregation_history) :
                      ~(/\ aggregation_history[j].period = "daily"
                        /\ aggregation_history[j].start_date = D)
                /\ anchor = aggregation_history[i].anchor
                /\ verify_anchor(anchors, D).merkle_root =
                       aggregation_history[i].merkle_root

\* ------------------------------------------------------------------ C39
\* C39: for any ledger contents, altered or not, verify_chain() returns true
\* if and only if verify_session(s).is_valid is true for every session s
\* that has at least one entry in the ledger; a verify_session call that has
\* just returned is_valid = false is on a ledger verify_chain() rejects.
GlobalAgreesWithSessions ==
    /\ verify_chain(entries)
           <=> \A s \in {entries[i].session_id : i \in 1..Len(entries)} :
                  VerificationResult(entries, s, clock).is_valid
    /\ (ret.op = "verify_session" /\ ret.value.event_count > 0)
           => (ret.value.is_valid
                  <=> VerificationResult(entries, ret.arg, clock).is_valid)

\* verify_session returned is_valid = true for one session of an altered
\* ledger whose other session does not verify, and verify_chain is false
WitnessGlobalAgreesWithSessions ==
    /\ ret.op = "verify_session" /\ ret.value.event_count > 0
    /\ ret.value.is_valid
    /\ tampers > 0
    /\ ~verify_chain(entries)
    /\ \E s \in Sessions \ {ret.arg} :
          /\ get_events_by_session(entries, s) # <<>>
          /\ ~VerificationResult(entries, s, clock).is_valid

\* ------------------------------------------------------------------ C40
\* C40: in every state in which no append is in progress, the next sequence
\* id equals the number of stored entries plus one, and the last-hash
\* pointer equals the stored hash of the last entry and is unset exactly when
\* the ledger is empty.
CountersMatchContents ==
    AllReturned
    => /\ next_event_id = Len(entries) + 1
       /\ last_hash = (IF entries = <<>> THEN None
                       ELSE entries[Len(entries)].hash)

====
